---- MODULE Spec2Model ----
(***************************************************************************)
(* Beneficial-ownership (UBO) resolution of the compliance core:           *)
(* backend/services/ubo_resolver.py.                                       *)
(*                                                                         *)
(* The relationship store is one organization's rows: `contacts` (party    *)
(* records) and `links` (relationship edges, in the order the store        *)
(* returns them).  Python floats are modelled by exact rationals           *)
(* [n, d] in lowest terms; a stored percentage is kept in hundredths of a  *)
(* percent (2499 is 24.99%).  A Python dict is a sequence of <<key,        *)
(* value>> pairs in insertion order; a Python set is a TLA+ set that is    *)
(* iterated in the order `set_order` (the process's hash order).           *)
(***************************************************************************)
EXTENDS Integers, Sequences, FiniteSets, TLC

VARIABLES
    contacts,    \* party records of the organization: id -> record
    links,       \* relationship edges, in store order
    set_order,   \* the order in which this process iterates a set of ids
    call,        \* arguments of the last resolve_ubos call, or None
    result,      \* what that call returned, or None
    run,         \* the locals of the resolve_ubos call being stepped through
    prev,        \* arguments and result of the last stepped call that returned
    profiles,    \* country, nationality and declared activities of each party
    validation,  \* root and result of the last validate_entity call, or None
    risk,        \* arguments and result of the last score_contact_risk call, or None
    risk_records,\* the rows of compliance_risk, one per scored party
    orders,      \* the sales orders: status, contact and the products of their lines
    invoices,    \* the rows of invoices, in the order of their creation
    projects,    \* the rows of projects
    tasks,       \* the rows of tasks
    response     \* the last HTTP response of the orders and invoices API, or None

\* the tables and the response of the sales flow
sales == <<orders, invoices, projects, tasks, response>>

vars == <<contacts, links, set_order, call, result, run, prev,
          profiles, validation, risk, risk_records, sales>>

\* Python's None, for an identifier and for a number: a nullable number is
\* <<>> or <<hundredths>>
None == "None"
NoValue == <<>>

UBO_THRESHOLD == 25
MAX_DEPTH == 20

-----------------------------------------------------------------------------
(* Exact arithmetic standing for Python's float: rationals in lowest terms. *)

Abs(x) == IF x < 0 THEN -x ELSE x

RECURSIVE GCD(_, _)
GCD(a, b) == IF b = 0 THEN a ELSE GCD(b, a % b)

Norm(n, d) ==
    LET g == GCD(Abs(n), d)
    IN  [n |-> n \div g, d |-> d \div g]

RatInt(i) == [n |-> i, d |-> 1]

\* float(l.percentage): a stored value in hundredths, as a number of percent
ToFloat(h) == Norm(h, 100)

Mul(a, b) ==
    LET g1 == GCD(Abs(a.n), b.d)
        g2 == GCD(Abs(b.n), a.d)
    IN  Norm((a.n \div g1) * (b.n \div g2), (a.d \div g2) * (b.d \div g1))

Add(a, b) ==
    LET g == GCD(a.d, b.d)
        l == (a.d \div g) * b.d
    IN  Norm(a.n * (l \div a.d) + b.n * (l \div b.d), l)

Sub(a, b) == Add(a, [n |-> -b.n, d |-> b.d])

RatAbs(a) == [n |-> Abs(a.n), d |-> a.d]

Lt(a, b) == a.n * b.d < b.n * a.d
Leq(a, b) == a.n * b.d <= b.n * a.d
Geq(a, b) == Leq(b, a)
Gt(a, b) == Lt(b, a)

\* round(x, k): to the nearest multiple of 1/scale, a tie to the even one
RoundTo(a, scale) ==
    LET num == a.n * scale
        q == num \div a.d
        r == num % a.d
        up == \/ 2 * r > a.d
              \/ 2 * r = a.d /\ q % 2 # 0
    IN  Norm(IF up THEN q + 1 ELSE q, scale)

Round2(a) == RoundTo(a, 100)
Round1(a) == RoundTo(a, 10)

-----------------------------------------------------------------------------
(* Python containers *)

Range(s) == {s[i] : i \in 1..Len(s)}

\* for x in S, with S a set: the elements in the process's hash order
IterSet(S, order) == SelectSeq(order, LAMBDA x: x \in S)

\* dict as a sequence of <<key, value>> in insertion order
DictKeys(d) == {d[i][1] : i \in 1..Len(d)}
DictIndex(d, k) == CHOOSE i \in 1..Len(d) : d[i][1] = k
DictGet(d, k, default) ==
    IF k \in DictKeys(d) THEN d[DictIndex(d, k)][2] ELSE default
DictSet(d, k, v) ==
    IF k \in DictKeys(d)
    THEN [d EXCEPT ![DictIndex(d, k)] = <<k, v>>]
    ELSE Append(d, <<k, v>>)

-----------------------------------------------------------------------------
(* _load_links_and_contacts: the subgraph around the root *)

\* rows with owner_contact_id in ids or owned_contact_id in ids
TouchingLinks(ls, ids) ==
    SelectSeq(ls, LAMBDA l: l.owner_contact_id \in ids \/ l.owned_contact_id \in ids)

EndPoints(ls) ==
    {ls[i].owner_contact_id : i \in 1..Len(ls)} \cup
    {ls[i].owned_contact_id : i \in 1..Len(ls)}

\* the while loop: two expansions per round, until no row touches the set,
\* the set stops growing, or MAX_DEPTH rounds were made
RECURSIVE expand_contact_ids(_, _, _)
expand_contact_ids(ls, contact_ids, depth) ==
    IF ~(depth < MAX_DEPTH) THEN contact_ids
    ELSE LET found == TouchingLinks(ls, contact_ids)
         IN  IF Len(found) = 0 THEN contact_ids
             ELSE LET ids1 == contact_ids \cup EndPoints(found)
                      ids2 == ids1 \cup EndPoints(TouchingLinks(ls, ids1))
                  IN  IF Cardinality(ids2) = Cardinality(ids1) THEN ids2
                      ELSE expand_contact_ids(ls, ids2, depth + 1)

load_links_and_contacts(ls, cs, root_contact_id) ==
    LET contact_ids == expand_contact_ids(ls, {root_contact_id}, 0)
    IN  [all_links |-> SelectSeq(ls, LAMBDA l: /\ l.owner_contact_id \in contact_ids
                                              /\ l.owned_contact_id \in contact_ids),
         contacts  |-> [c \in contact_ids \cap DOMAIN cs |-> cs[c]]]

-----------------------------------------------------------------------------
(* _find_cycles *)

\* out_edges[cid]: the owned ids of the rows whose owner is cid, in row order
out_edges(ls, cid) ==
    LET rows == SelectSeq(ls, LAMBDA l: l.owner_contact_id = cid)
    IN  [i \in 1..Len(rows) |-> rows[i].owned_contact_id]

\* the closure's state: cycles, path, path_set, in_path
NewCycleState == [cycles |-> <<>>, path |-> <<>>, path_set |-> {}, in_path |-> <<>>]

\* cid in in_path: record the part of the path from cid's position, closed by cid
\* fault: the cycle is not closed by the party met again
RecordCycle_open(st, cid) ==
    LET cycle == SubSeq(st.path, DictGet(st.in_path, cid, 0) + 1, Len(st.path))
    IN  [st EXCEPT !.cycles = Append(@, cycle)]

RecordCycle(st, cid) ==
    LET cycle == SubSeq(st.path, DictGet(st.in_path, cid, 0) + 1, Len(st.path)) \o <<cid>>
    IN  IF Len(cycle) > 1 THEN [st EXCEPT !.cycles = Append(@, cycle)] ELSE st

\* fault: the position of the party on the path is not kept
EnterNode_unindexed(st, cid) ==
    [st EXCEPT !.path_set = @ \cup {cid}, !.path = Append(@, cid)]

\* path_set.add(cid); in_path[cid] = len(path); path.append(cid)
EnterNode(st, cid) ==
    [st EXCEPT !.path_set = @ \cup {cid},
               !.in_path = DictSet(@, cid, Len(st.path)),
               !.path = Append(@, cid)]

\* path.pop(); del in_path[cid]; path_set.discard(cid)
LeaveNode(st, cid) ==
    [st EXCEPT !.path = SubSeq(@, 1, Len(@) - 1),
               !.in_path = SelectSeq(@, LAMBDA kv: kv[1] # cid),
               !.path_set = @ \ {cid}]

RECURSIVE cycles_dfs(_, _, _)
RECURSIVE cycles_dfs_children(_, _, _, _)
cycles_dfs(ls, cid, st) ==
    IF cid \in DictKeys(st.in_path) THEN RecordCycle(st, cid)
    ELSE IF cid \in st.path_set THEN st
    ELSE LeaveNode(cycles_dfs_children(ls, out_edges(ls, cid), 1, EnterNode(st, cid)), cid)

cycles_dfs_children(ls, tos, i, st) ==
    IF i > Len(tos) THEN st
    ELSE cycles_dfs_children(ls, tos, i + 1, cycles_dfs(ls, tos[i], st))

\* for cid in contact_ids: if cid not in path_set: dfs(cid)
RECURSIVE cycles_from_each(_, _, _, _)
cycles_from_each(ls, order, i, st) ==
    IF i > Len(order) THEN st
    ELSE cycles_from_each(ls, order, i + 1,
            IF order[i] \notin st.path_set THEN cycles_dfs(ls, order[i], st) ELSE st)

find_cycles(ls, contact_ids, order) ==
    cycles_from_each(ls, IterSet(contact_ids, order), 1, NewCycleState).cycles

-----------------------------------------------------------------------------
(* _effective_ownership_paths and _aggregate_effective *)

\* incoming[node]: <<owner, percentage>> of each ownership row that has a
\* percentage and of each control row (voting_pct, or 100 without one)
incoming(ls, node_id) ==
    LET rows == SelectSeq(ls, LAMBDA l:
                    /\ l.owned_contact_id = node_id
                    /\ \/ l.link_type = "ownership" /\ l.percentage # NoValue
                       \/ l.link_type = "control")
    IN  [i \in 1..Len(rows) |->
            <<rows[i].owner_contact_id,
              IF rows[i].link_type = "ownership" THEN ToFloat(rows[i].percentage[1])
              ELSE IF rows[i].voting_pct # NoValue THEN ToFloat(rows[i].voting_pct[1])
              ELSE RatInt(100)>>]

\* fault: the visited paths outlive the call
NewPathState_kept == [result |-> <<>>, visited_paths |-> run.pst.visited_paths]

\* result = defaultdict(list); visited_paths = set()
NewPathState == [result |-> <<>>, visited_paths |-> {}]

IsIndividual(cs, cid) == cid \in DOMAIN cs /\ cs[cid].contact_type = "individual"

\* result[node_id].append((path + [node_id], product))
RecordPath(st, node_id, path, product) ==
    [st EXCEPT !.result =
        DictSet(@, node_id,
                Append(DictGet(@, node_id, <<>>),
                       [path |-> Append(path, node_id), pct |-> product]))]

\* if depth > MAX_DEPTH or product <= 0: return
PathAbandoned(product, depth) == depth > MAX_DEPTH \/ Leq(product, RatInt(0))

\* if owner_id in path: continue
OwnerOnPath(owner_id, path) == owner_id \in Range(path)

\* visited_paths.add(path_key); an individual is recorded with the product so far
VisitNode(st, cs, node_id, path, product) ==
    LET st1 == [st EXCEPT !.visited_paths = @ \cup {Append(path, node_id)}]
    IN  IF IsIndividual(cs, node_id) THEN RecordPath(st1, node_id, path, product) ELSE st1

\* fault: the product so far is dropped
Compound_restart(product, pct) == Mul(pct, [n |-> 1, d |-> 100])

\* product * (pct / 100.0)
Compound(product, pct) == Mul(product, Mul(pct, [n |-> 1, d |-> 100]))

RECURSIVE paths_dfs(_, _, _, _, _, _, _)
RECURSIVE paths_dfs_owners(_, _, _, _, _, _, _, _, _)
paths_dfs(ls, cs, node_id, path, product, depth, st) ==
    IF PathAbandoned(product, depth) THEN st
    ELSE IF Append(path, node_id) \in st.visited_paths THEN st
    ELSE paths_dfs_owners(ls, cs, node_id, path, product, depth,
                          incoming(ls, node_id), 1,
                          VisitNode(st, cs, node_id, path, product))

paths_dfs_owners(ls, cs, node_id, path, product, depth, owners, i, st) ==
    IF i > Len(owners) THEN st
    ELSE LET owner_id == owners[i][1]
             pct == owners[i][2]
             st1 == IF OwnerOnPath(owner_id, path) THEN st
                    ELSE paths_dfs(ls, cs, owner_id, Append(path, node_id),
                                   Compound(product, pct),
                                   depth + 1, st)
         IN  paths_dfs_owners(ls, cs, node_id, path, product, depth, owners, i + 1, st1)

effective_ownership_paths(ls, cs, target_contact_id) ==
    paths_dfs(ls, cs, target_contact_id, <<>>, RatInt(100), 0, NewPathState).result

RECURSIVE SumPaths(_)
SumPaths(paths) ==
    IF paths = <<>> THEN RatInt(0)
    ELSE Add(SumPaths(SubSeq(paths, 1, Len(paths) - 1)), paths[Len(paths)].pct)

aggregate_effective(path_map) ==
    [i \in 1..Len(path_map) |-> <<path_map[i][1], SumPaths(path_map[i][2])>>]

-----------------------------------------------------------------------------
(* _control_ubos *)

\* fault: the kind of the controlling party is not looked at
control_ubos_any(ls, cs, target_contact_id) ==
    {ls[i].owner_contact_id : i \in
        {j \in 1..Len(ls) :
            /\ ls[j].owned_contact_id = target_contact_id
            /\ ls[j].link_type \in {"control", "director"}
            /\ ls[j].is_nominee # "true"}}

control_ubos(ls, cs, target_contact_id) ==
    {ls[i].owner_contact_id : i \in
        {j \in 1..Len(ls) :
            /\ ls[j].owned_contact_id = target_contact_id
            /\ ls[j].link_type \in {"control", "director"}
            /\ ls[j].is_nominee # "true"
            /\ IsIndividual(cs, ls[j].owner_contact_id)}}

-----------------------------------------------------------------------------
(* resolve_ubos *)

UboEntry(contact_id, effective_pct, is_control, is_fallback) ==
    [contact_id |-> contact_id,
     effective_pct |-> effective_pct,
     is_control |-> is_control,
     is_senior_manager_fallback |-> is_fallback]

\* fault: the threshold taken as exclusive
MeetsThreshold_exclusive(pct) == Gt(pct, RatInt(UBO_THRESHOLD))

\* pct >= UBO_THRESHOLD
MeetsThreshold(pct) == Geq(pct, RatInt(UBO_THRESHOLD))

\* person_id in control_ubos and (pct < UBO_THRESHOLD or not pct)
IsControlFlag(person_id, pct, cu) ==
    person_id \in cu /\ (Lt(pct, RatInt(UBO_THRESHOLD)) \/ pct = RatInt(0))

\* for person_id, pct in aggregated.items(): ...
RECURSIVE threshold_loop(_, _, _, _)
threshold_loop(aggregated, cu, i, acc) ==
    IF i > Len(aggregated) THEN acc
    ELSE LET person_id == aggregated[i][1]
             pct == aggregated[i][2]
         IN  threshold_loop(aggregated, cu, i + 1,
                IF person_id \in acc.seen THEN acc
                ELSE IF MeetsThreshold(pct) \/ person_id \in cu
                     THEN [ubos |-> Append(acc.ubos,
                                UboEntry(person_id, Round2(pct),
                                         IsControlFlag(person_id, pct, cu), FALSE)),
                           seen |-> acc.seen \cup {person_id}]
                     ELSE acc)

\* for person_id in control_ubos: if person_id not in seen: ...
RECURSIVE control_loop(_, _, _, _)
control_loop(aggregated, cu_iter, i, acc) ==
    IF i > Len(cu_iter) THEN acc
    ELSE LET person_id == cu_iter[i]
         IN  control_loop(aggregated, cu_iter, i + 1,
                IF person_id \notin acc.seen
                THEN [ubos |-> Append(acc.ubos,
                            UboEntry(person_id, DictGet(aggregated, person_id, RatInt(0)),
                                     TRUE, FALSE)),
                      seen |-> acc.seen \cup {person_id}]
                ELSE acc)

\* fault: the senior manager is added whether or not a UBO was identified
senior_manager_fallback_always(ubos, cs, entity, senior_manager_contact_id) ==
    IF senior_manager_contact_id # None /\ IsIndividual(cs, senior_manager_contact_id)
    THEN Append(ubos, UboEntry(senior_manager_contact_id, RatInt(0), FALSE, TRUE))
    ELSE ubos

\* Fallback: if no UBO identified, use senior manager
senior_manager_fallback(ubos, cs, entity, senior_manager_contact_id) ==
    IF /\ ubos = <<>>
       /\ senior_manager_contact_id # None
       /\ senior_manager_contact_id \in DOMAIN cs
    THEN IF cs[senior_manager_contact_id].contact_type = "individual"
         THEN Append(ubos, UboEntry(senior_manager_contact_id, RatInt(0), FALSE, TRUE))
         ELSE ubos
    ELSE IF /\ ubos = <<>>
            /\ entity.senior_manager_contact_id # None
            /\ entity.senior_manager_contact_id \in DOMAIN cs
    THEN IF cs[entity.senior_manager_contact_id].contact_type = "individual"
         THEN Append(ubos, UboEntry(entity.senior_manager_contact_id, RatInt(0), FALSE, TRUE))
         ELSE ubos
    ELSE ubos

\* sum(l.percentage or 0 for l in links
\*     if l.owned_contact_id == entity_contact_id and l.link_type == OWNERSHIP)
RECURSIVE total_ownership(_, _)
total_ownership(ls, entity_contact_id) ==
    IF ls = <<>> THEN RatInt(0)
    ELSE LET l == ls[Len(ls)]
             rest == total_ownership(SubSeq(ls, 1, Len(ls) - 1), entity_contact_id)
         IN  IF /\ l.owned_contact_id = entity_contact_id
                /\ l.link_type = "ownership"
                /\ l.percentage # NoValue
             THEN Add(rest, ToFloat(l.percentage[1]))
             ELSE rest

CycleWarning == [text |-> "Cycle(s) detected in ownership structure", total |-> RatInt(0)]
SumWarning(total) == [text |-> "Total ownership sums to, not 100%", total |-> Round1(total)]

\* abs(total_ownership - 100.0) > 0.01 on binary floats: a total one hundredth
\* away from 100 (99.99, 100.01) has no exact double, and its distance from
\* 100.0 comes out as 0.010000000000005116, above the double nearest to 0.01;
\* so the comparison is true from one hundredth on
SumIsOff(total) == Geq(RatAbs(Sub(total, RatInt(100))), [n |-> 1, d |-> 100])

resolve_warnings(cycles, total) ==
    (IF cycles # <<>> THEN <<CycleWarning>> ELSE <<>>) \o
    (IF SumIsOff(total) THEN <<SumWarning(total)>> ELSE <<>>)

\* fault: the warning is dropped
EntityNotFound_unwarned ==
    [ubos |-> <<>>, effective_ownership |-> <<>>, cycles |-> <<>>, warnings |-> <<>>]

EntityNotFound ==
    [ubos |-> <<>>, effective_ownership |-> <<>>, cycles |-> <<>>,
     warnings |-> <<[text |-> "Entity not found", total |-> RatInt(0)]>>]

\* the part of resolve_ubos after the traversals: classification, fallback,
\* warnings and the returned dict
classify(ls, cs, order, entity_contact_id, senior_manager_contact_id, cycles, path_map) ==
    LET aggregated == aggregate_effective(path_map)
        cu == control_ubos(ls, cs, entity_contact_id)
        byThreshold == threshold_loop(aggregated, cu, 1, [ubos |-> <<>>, seen |-> {}])
        byControl == control_loop(aggregated, IterSet(cu, order), 1, byThreshold)
    IN  [ubos |-> senior_manager_fallback(byControl.ubos, cs, cs[entity_contact_id],
                                          senior_manager_contact_id),
         effective_ownership |->
            [i \in 1..Len(aggregated) |-> <<aggregated[i][1], Round2(aggregated[i][2])>>],
         cycles |-> cycles,
         warnings |-> resolve_warnings(cycles, total_ownership(ls, entity_contact_id))]

resolve_ubos(ls, cs, order, entity_contact_id, senior_manager_contact_id) ==
    LET loaded == load_links_and_contacts(ls, cs, entity_contact_id)
    IN  IF entity_contact_id \notin DOMAIN loaded.contacts THEN EntityNotFound
        ELSE classify(loaded.all_links, loaded.contacts, order, entity_contact_id,
                      senior_manager_contact_id,
                      find_cycles(loaded.all_links, DOMAIN loaded.contacts, order),
                      effective_ownership_paths(loaded.all_links, loaded.contacts,
                                                entity_contact_id))

-----------------------------------------------------------------------------
(* validate_entity (backend/services/compliance_validation.py) *)

\* total = sum((l.percentage or 0) for l in links if ... ownership into the entity)
validation_total(ls, entity_contact_id) == total_ownership(ls, entity_contact_id)

\* abs(total - 100.0) < 0.01
ownership_sum_valid(total) == Lt(RatAbs(Sub(total, RatInt(100))), [n |-> 1, d |-> 100])

TotalWarning(total) == [text |-> "Total ownership is, not 100%", total |-> Round1(total)]

\* fault: the party is looked for on the owned side
is_shareholder_owned(ls, cid) == \E i \in 1..Len(ls) : ls[i].owned_contact_id = cid

\* is_shareholder = any(l.owner_contact_id == cid for l in links)
is_shareholder(ls, cid) == \E i \in 1..Len(ls) : ls[i].owner_contact_id = cid

\* a company other than the entity that owns some row, for which resolve_ubos
\* on the store returns no UBO
is_dead_end(db_links, db_contacts, order, ls, cs, entity_contact_id, cid) ==
    /\ cs[cid].contact_type = "company"
    /\ cid # entity_contact_id
    /\ is_shareholder(ls, cid)
    /\ resolve_ubos(db_links, db_contacts, order, cid, None).ubos = <<>>

\* for cid in contact_ids: ... dead_ends.append(...)
dead_ends(db_links, db_contacts, order, ls, cs, entity_contact_id) ==
    SelectSeq(IterSet(DOMAIN cs, order),
              LAMBDA cid : is_dead_end(db_links, db_contacts, order, ls, cs,
                                       entity_contact_id, cid))

ValidationNotFound ==
    [ownership_sum_valid |-> FALSE, total_percentage |-> RatInt(0),
     dead_ends |-> <<>>, cycles |-> <<>>,
     warnings |-> <<[text |-> "Entity not found", total |-> RatInt(0)]>>]

validate_entity(ls, cs, order, entity_contact_id) ==
    LET loaded == load_links_and_contacts(ls, cs, entity_contact_id)
        total == validation_total(loaded.all_links, entity_contact_id)
        cycles == find_cycles(loaded.all_links, DOMAIN loaded.contacts, order)
    IN  IF entity_contact_id \notin DOMAIN loaded.contacts THEN ValidationNotFound
        ELSE [ownership_sum_valid |-> ownership_sum_valid(total),
              total_percentage |-> Round2(total),
              dead_ends |-> dead_ends(ls, cs, order, loaded.all_links, loaded.contacts,
                                      entity_contact_id),
              cycles |-> cycles,
              warnings |->
                 (IF ownership_sum_valid(total) THEN <<>> ELSE <<TotalWarning(total)>>) \o
                 (IF cycles # <<>> THEN <<CycleWarning>> ELSE <<>>)]

-----------------------------------------------------------------------------
(* score_contact_risk (backend/services/risk_scoring.py).  A text is the     *)
(* sequence of its characters; a nullable text is <<>> or <<text>>.          *)

HIGH_RISK_COUNTRIES ==
    { <<"I", "R">>, <<"K", "P">>, <<"S", "Y">>, <<"R", "U">>, <<"B", "Y">> }

MEDIUM_RISK_COUNTRIES ==
    { <<"A", "F">>, <<"M", "M">>, <<"I", "Q">>, <<"L", "Y">>, <<"S", "O">>,
      <<"Y", "E">>, <<"S", "D">>, <<"S", "S">>, <<"C", "D">>, <<"M", "L">>,
      <<"N", "G">>, <<"V", "E">>, <<"E", "T">>, <<"H", "T">> }

HIGH_RISK_ACTIVITIES ==
    { <<"g", "a", "m", "b", "l", "i", "n", "g">>,
      <<"c", "a", "s", "i", "n", "o">>, <<"w", "e", "a", "p", "o", "n">>,
      <<"a", "r", "m", "s">>,
      <<"p", "r", "e", "c", "i", "o", "u", "s", " ", "m", "e", "t", "a", "l">>,
      <<"g", "e", "m">>, <<"d", "i", "a", "m", "o", "n", "d">>,
      <<"c", "a", "s", "h">>,
      <<"m", "o", "n", "e", "y", " ", "t", "r", "a", "n", "s", "f", "e", "r">>,
      <<"c", "r", "y", "p", "t", "o">>,
      <<"b", "i", "t", "c", "o", "i", "n">>, <<"f", "o", "r", "e", "x">>,
      <<"t", "r", "u", "s", "t">>,
      <<"f", "o", "u", "n", "d", "a", "t", "i", "o", "n">> }

MEDIUM_RISK_ACTIVITIES ==
    { <<"r", "e", "a", "l", " ", "e", "s", "t", "a", "t", "e">>,
      <<"c", "o", "n", "s", "t", "r", "u", "c", "t", "i", "o", "n">>,
      <<"i", "m", "p", "o", "r", "t">>, <<"e", "x", "p", "o", "r", "t">>,
      <<"t", "r", "a", "d", "i", "n", "g">>,
      <<"t", "r", "a", "d", "i", "n", "g", " ", "c", "o", "m", "p", "a", "n", "y">> }

DEFAULT_WEIGHTS == << <<"nationality", 40>>, <<"industry", 30>>, <<"complexity", 30>> >>

LowerCase == <<"a", "b", "c", "d", "e", "f", "g", "h", "i", "j", "k", "l", "m">> \o
             <<"n", "o", "p", "q", "r", "s", "t", "u", "v", "w", "x", "y", "z">>
UpperCase == <<"A", "B", "C", "D", "E", "F", "G", "H", "I", "J", "K", "L", "M">> \o
             <<"N", "O", "P", "Q", "R", "S", "T", "U", "V", "W", "X", "Y", "Z">>

\* str.upper(), str.lower()
UpperChar(ch) ==
    IF \E i \in 1..Len(LowerCase) : LowerCase[i] = ch
    THEN UpperCase[CHOOSE i \in 1..Len(LowerCase) : LowerCase[i] = ch] ELSE ch
LowerChar(ch) ==
    IF \E i \in 1..Len(UpperCase) : UpperCase[i] = ch
    THEN LowerCase[CHOOSE i \in 1..Len(UpperCase) : UpperCase[i] = ch] ELSE ch
Upper(t) == [i \in 1..Len(t) |-> UpperChar(t[i])]
Lower(t) == [i \in 1..Len(t) |-> LowerChar(t[i])]

\* str.strip()
Strip(t) ==
    LET inked == {i \in 1..Len(t) : t[i] # " "}
    IN  IF inked = {} THEN <<>>
        ELSE SubSeq(t, CHOOSE i \in inked : \A j \in inked : i <= j,
                       CHOOSE i \in inked : \A j \in inked : i >= j)

\* a in t, for texts
Contains(a, t) ==
    \E i \in 1..(Len(t) - Len(a) + 1) : SubSeq(t, i, i + Len(a) - 1) = a

\* x or y, for nullable texts: None and "" are falsy
TextOr(x, y) == IF x = NoValue \/ x[1] = <<>> THEN y ELSE x

nationality_score(country) ==
    IF country = NoValue \/ country[1] = <<>> \/ Strip(country[1]) = <<>> THEN 50
    ELSE LET stripped == Strip(country[1])
             code == Upper(SubSeq(stripped, 1, IF Len(stripped) < 2 THEN Len(stripped) ELSE 2))
         IN  IF code \in HIGH_RISK_COUNTRIES THEN 90
             ELSE IF code \in MEDIUM_RISK_COUNTRIES THEN 60
             ELSE 20

\* fault: the medium-risk keywords are not looked at
industry_score_high_only(activities) ==
    IF activities = <<>> THEN 30
    ELSE IF \E a \in HIGH_RISK_ACTIVITIES : Contains(a, Lower(activities)) THEN 85
    ELSE 25

industry_score(activities) ==
    IF activities = <<>> THEN 30
    ELSE LET lower == Lower(activities)
         IN  IF \E a \in HIGH_RISK_ACTIVITIES : Contains(a, lower) THEN 85
             ELSE IF \E a \in MEDIUM_RISK_ACTIVITIES : Contains(a, lower) THEN 55
             ELSE 25

\* for l in links_out / links_in: push the other end unless seen
RECURSIVE push_unseen(_, _, _, _)
push_unseen(ids, i, d, acc) ==
    IF i > Len(ids) THEN acc
    ELSE IF ids[i] \in acc.seen THEN push_unseen(ids, i + 1, d, acc)
    ELSE push_unseen(ids, i + 1, d,
                     [stack |-> Append(acc.stack, <<ids[i], d>>),
                      seen |-> acc.seen \cup {ids[i]}])

\* while stack and depth < 15: ...
RECURSIVE complexity_loop(_, _, _, _, _, _)
complexity_loop(ls, stack, seen, depth, max_depth, total_links) ==
    IF stack = <<>> \/ depth >= 15
    THEN [max_depth |-> max_depth, total_links |-> total_links]
    ELSE LET cid == stack[Len(stack)][1]
             d == stack[Len(stack)][2]
             links_out == SelectSeq(ls, LAMBDA l : l.owner_contact_id = cid)
             links_in == SelectSeq(ls, LAMBDA l : l.owned_contact_id = cid)
             out == push_unseen([i \in 1..Len(links_out) |-> links_out[i].owned_contact_id],
                                1, d + 1,
                                [stack |-> SubSeq(stack, 1, Len(stack) - 1), seen |-> seen])
             in == push_unseen([i \in 1..Len(links_in) |-> links_in[i].owner_contact_id],
                               1, d + 1, out)
         IN  complexity_loop(ls, in.stack, in.seen, depth + 1,
                             IF d > max_depth THEN d ELSE max_depth,
                             total_links + Len(links_out) + Len(links_in))

Min(a, b) == IF a < b THEN a ELSE b

complexity_score(ls, contact_id) ==
    LET walked == complexity_loop(ls, << <<contact_id, 0>> >>, {contact_id}, 0, 0, 0)
    IN  Min(95, 20 + walked.max_depth * 15 + Min(40, walked.total_links * 2))

\* total_w = w.get("nationality", 40) + w.get("industry", 30) + w.get("complexity", 30) or 100
total_w(w) ==
    LET sum == DictGet(w, "nationality", 40) + DictGet(w, "industry", 30)
               + DictGet(w, "complexity", 30)
    IN  IF sum = 0 THEN 100 ELSE sum

\* n_score * (w_n / total_w) + i_score * (w_i / total_w) + c_score * (w_c / total_w)
weighted_score(w, n_score, i_score, c_score) ==
    Add(Add(Mul(RatInt(n_score), Norm(DictGet(w, "nationality", 40), total_w(w))),
            Mul(RatInt(i_score), Norm(DictGet(w, "industry", 30), total_w(w)))),
        Mul(RatInt(c_score), Norm(DictGet(w, "complexity", 30), total_w(w))))

\* min(100, max(0, risk_score))
Clamp(x) == IF Lt(x, RatInt(0)) THEN RatInt(0)
            ELSE IF Gt(x, RatInt(100)) THEN RatInt(100) ELSE x

risk_band(risk_score) ==
    IF Geq(risk_score, RatInt(70)) THEN "high"
    ELSE IF Geq(risk_score, RatInt(40)) THEN "medium"
    ELSE "low"

ContactNotScored == [risk_score |-> NoValue, risk_band |-> None, factors_json |-> NoValue]

\* weights is <<>> for None, else <<dict>>; None and {} give DEFAULT_WEIGHTS
score_contact_risk(ls, cs, profs, contact_id, weights) ==
    IF contact_id \notin DOMAIN cs THEN ContactNotScored
    ELSE LET w == IF weights = NoValue \/ weights[1] = <<>> THEN DEFAULT_WEIGHTS
                  ELSE weights[1]
             n_score == nationality_score(TextOr(profs[contact_id].country,
                                                 profs[contact_id].nationality))
             act == TextOr(profs[contact_id].activity_license_activities, <<<<>>>>)[1]
             i_score == industry_score(act)
             c_score == complexity_score(ls, contact_id)
             risk_score == Round1(Clamp(weighted_score(w, n_score, i_score, c_score)))
         IN  [risk_score |-> <<risk_score>>,
              risk_band |-> risk_band(risk_score),
              factors_json |-> <<[nationality |-> n_score, industry |-> i_score,
                                  complexity |-> c_score]>>]

-----------------------------------------------------------------------------
(* The store: parties and relationship rows *)

MaxLinks == 2     \* rows of a freely combined store
MaxChain == 22    \* edges of the longest single chain (the last four lengths are built)

Company(senior) == [contact_type |-> "company", senior_manager_contact_id |-> senior]
Individual == [contact_type |-> "individual", senior_manager_contact_id |-> None]

\* intermediate companies of a chain, the one next to the root first
ChainNames ==
    <<"N01", "N02", "N03", "N04", "N05", "N06", "N07", "N08", "N09", "N10",
      "N11", "N12", "N13", "N14", "N15", "N16", "N17", "N18", "N19", "N20",
      "N21", "N22", "N23", "N24">>

\* the organization's parties: root company R, company X, individuals P and Q,
\* and with a chain its intermediate companies
BaseOrder == <<"R", "X", "P", "Q">>
IdOrder == BaseOrder \o ChainNames
Reverse(s) == [i \in 1..Len(s) |-> s[Len(s) + 1 - i]]

Contacts(ids, senior) ==
    [c \in ids |->
        IF c = "R" THEN Company(senior)
        ELSE IF c \in {"P", "Q"} THEN Individual
        ELSE Company(None)]

Link(owner, owned, type, pct, vpct, nominee) ==
    [owner_contact_id |-> owner, owned_contact_id |-> owned, link_type |-> type,
     percentage |-> pct, voting_pct |-> vpct, is_nominee |-> nominee]

Own(owner, owned, h) == Link(owner, owned, "ownership", <<h>>, NoValue, "false")
Ctl(owner, owned, vpct, nominee) == Link(owner, owned, "control", NoValue, vpct, nominee)
Rel(owner, owned, type, nominee) == Link(owner, owned, type, NoValue, NoValue, nominee)

\* the rows a freely combined store is made of (percentages in hundredths)
LinkChoices ==
    { Own("P", "R", 2500), Own("P", "R", 2499), Own("P", "R", 5000),
      Own("Q", "R", 7500), Own("P", "X", 6000), Own("P", "X", 10000),
      Own("X", "R", 5000), Own("X", "R", 10000), Own("R", "X", 10000),
      Own("R", "R", 5000), Own("Q", "P", 10000),
      Own("P", "R", 0), Own("P", "R", 15000), Own("Q", "R", -1000),
      Link("P", "R", "ownership", NoValue, NoValue, "false"),
      Ctl("P", "R", NoValue, "false"), Ctl("P", "R", NoValue, "true"),
      Ctl("P", "R", <<1000>>, "false"),
      Rel("P", "R", "director", "false"), Rel("P", "R", "director", "true"),
      Rel("Q", "R", "director", "false"),
      Rel("Q", "R", "manages", "false"),
      Rel("Q", "P", "family", "false"), Rel("P", "Q", "family", "false"),
      Rel("Q", "X", "employee", "false"),
      Rel("X", "R", "director", "false") }

SeqsUpTo(S, n) == UNION {[1..k -> S] : k \in 0..n}

\* P holds R directly and through X: two distinct paths
DiamondStores ==
    { <<Own("P", "X", a), Own("X", "R", b), Own("P", "R", c)>> :
        a \in {5000, 10000}, b \in {3000, 5000}, c \in {1000, 999} } \cup
    { <<Own("P", "R", c), Own("X", "R", b), Own("P", "X", a)>> :
        a \in {5000, 10000}, b \in {3000, 5000}, c \in {1000, 999} }

\* the chain P -> N(n-1) -> ... -> N01 -> R of n ownership edges of h each
ChainNode(n, i) == IF i = 0 THEN "R" ELSE IF i = n THEN "P" ELSE ChainNames[i]
ChainStore(n, h) == [i \in 1..n |-> Own(ChainNode(n, i), ChainNode(n, i - 1), h)]
ChainStores == {ChainStore(n, h) : n \in (MaxChain - 3)..MaxChain, h \in {10000, 5000}}

NoCall == [root |-> None, sm |-> None]
NoResult == [ubos |-> <<>>, effective_ownership |-> <<>>, cycles |-> <<>>, warnings |-> <<>>]

\* the roots and senior-manager arguments resolve_ubos is called with ("Z" names
\* no party)
Requests ==
    { [root |-> "R", sm |-> None], [root |-> "R", sm |-> "P"],
      [root |-> "R", sm |-> "X"],
      [root |-> "X", sm |-> None], [root |-> "P", sm |-> None],
      [root |-> "Z", sm |-> None] }

\* a party without country, nationality or declared activities
BlankProfile ==
    [country |-> NoValue, nationality |-> NoValue, activity_license_activities |-> NoValue]
BlankProfiles(ids) == [c \in ids |-> BlankProfile]

NoValidation == [root |-> None, result |-> ValidationNotFound]
NoRiskRequest == [contact_id |-> None, weights |-> NoValue]
NoRisk == [req |-> NoRiskRequest, result |-> ContactNotScored]

\* the roots validate_entity is called with
ValidationRoots == {"R", "X", "P", "Z"}

\* the parties score_contact_risk is called for on the small stores, with the
\* default weights
RiskRequests == {[contact_id |-> c, weights |-> NoValue] : c \in {"R", "P", "Z"}}

\* no call of the stepped resolver is under way
IdleRun ==
    [pc |-> "idle", calls |-> 0, req |-> NoCall,
     all_links |-> <<>>, contacts |-> <<>>, order |-> <<>>,
     next |-> 1, stack |-> <<>>,
     st |-> [cycles |-> <<>>, path |-> <<>>, path_set |-> {}, in_path |-> <<>>],
     pstack |-> <<>>, pst |-> [result |-> <<>>, visited_paths |-> {}]]
NoPrev == [req |-> NoCall, result |-> NoResult]

\* a cycle through three parties, alone and with an owner outside it
TriangleStores ==
    { <<Own("X", "R", 5000), Own("P", "X", 6000), Own("R", "P", 10000)>>,
      <<Own("R", "P", 10000), Own("X", "R", 5000), Own("P", "X", 6000),
        Own("Q", "X", 4000)>> }

\* R and X hold each other, P holds X, and P and Q are family of each other:
\* two loops without a party in common in one component
TwoLoopStores ==
    { <<Own("R", "X", 10000), Own("X", "R", 5000), Own("P", "X", 6000),
        Rel("Q", "P", "family", "false"), Rel("P", "Q", "family", "false")>> }

\* rows that name "Z", an identifier without a party in the organization (rows
\* that outlived a deleted party)
OrphanStores ==
    { <<Own("P", "Z", 5000)>>, <<Own("Z", "R", 10000)>>,
      <<Own("P", "Z", 5000), Own("Z", "P", 5000)>> }

InitStore ==
    /\ links \in SeqsUpTo(LinkChoices, MaxLinks) \cup DiamondStores \cup TwoLoopStores
                \cup TriangleStores \cup OrphanStores
    /\ contacts \in {Contacts(Range(BaseOrder), None), Contacts(Range(BaseOrder), "Q")}
    /\ set_order \in {BaseOrder, Reverse(BaseOrder)}

\* no HTTP response yet
NoResponse ==
    [status_code |-> 0, detail |-> "None", order_id |-> None, status |-> None,
     invoice_id |-> 0, project_id |-> 0,
     confirmed_invoice_id |-> 0, confirmed_project_id |-> 0]

\* the sales flow has no order, invoice, project or task
NoSales ==
    /\ orders = <<>>
    /\ invoices = <<>>
    /\ projects = <<>>
    /\ tasks = <<>>
    /\ response = NoResponse

\* no risk was saved, and the sales flow is empty
NothingStored ==
    /\ risk_records = <<>>
    /\ NoSales

\* nothing has been called yet
NothingCalled ==
    /\ call = NoCall
    /\ result = NoResult
    /\ run = IdleRun
    /\ prev = NoPrev
    /\ validation = NoValidation
    /\ risk = NoRisk

Init ==
    /\ InitStore
    /\ profiles = BlankProfiles(DOMAIN contacts)
    /\ NothingCalled
    /\ NothingStored

Idle == call = NoCall /\ validation = NoValidation /\ risk = NoRisk

\* one whole call of resolve_ubos on the store as it is (one request is
\* followed per behaviour)
ResolveUbos(req) ==
    /\ Idle
    /\ call' = req
    /\ result' = resolve_ubos(links, contacts, set_order, req.root, req.sm)
    /\ UNCHANGED <<contacts, links, set_order, run, prev, profiles, validation, risk,
                   risk_records, sales>>

\* one whole call of validate_entity on the store as it is
ValidateEntity(root) ==
    /\ Idle
    /\ validation' = [root |-> root,
                      result |-> validate_entity(links, contacts, set_order, root)]
    /\ UNCHANGED <<contacts, links, set_order, call, result, run, prev, profiles, risk,
                   risk_records, sales>>

\* one whole call of score_contact_risk on the store as it is
ScoreContactRisk(req) ==
    /\ Idle
    /\ risk' = [req |-> req,
                result |-> score_contact_risk(links, contacts, profiles,
                                              req.contact_id, req.weights)]
    /\ UNCHANGED <<contacts, links, set_order, call, result, run, prev, profiles,
                   validation, risk_records, sales>>

Next ==
    \/ \E req \in Requests : ResolveUbos(req)
    \/ \E root \in ValidationRoots : ValidateEntity(root)
    \/ \E req \in RiskRequests : ScoreContactRisk(req)

Spec == Init /\ [][Next]_vars

-----------------------------------------------------------------------------
(* Risk scoring on its own: the party R with its attributes, the weights and *)
(* stores large enough for the walk of _complexity_score to end early        *)

MaxLeaves == 15   \* parties that hold R directly and nothing else

\* column values of a party: country, nationality, activity_license_activities
RiskCountries ==
    { NoValue, <<<<>>>>, <<<<" ", " ">>>>, <<<<"F", "R">>>>, <<<<" ", "r", "u", " ">>>>,
      <<<<"A", "f", "g", "h", "a", "n", "i", "s", "t", "a", "n">>>> }
RiskNationalities == { NoValue, <<<<"K", "P">>>> }
RiskActivities ==
    { NoValue, <<<<>>>>,
      <<<<"g", "e", "n", "e", "r", "a", "l", " ", "t", "r", "a", "d", "i", "n", "g">>>>,
      <<<<"O", "n", "l", "i", "n", "e", " ", "C", "a", "s", "i", "n", "o">>>>,
      <<<<"c", "o", "n", "s", "u", "l", "t", "i", "n", "g">>>> }

RiskProfiles ==
    { [country |-> c, nationality |-> n, activity_license_activities |-> a] :
        c \in RiskCountries, n \in RiskNationalities, a \in RiskActivities }

\* the weights argument: None, {}, complete maps and maps that omit keys
RiskWeights ==
    { NoValue, <<<<>>>>,
      << << <<"nationality", 1>>, <<"industry", 1>>, <<"complexity", 1>> >> >>,
      << << <<"nationality", 0>>, <<"industry", 0>>, <<"complexity", 0>> >> >>,
      << << <<"nationality", 100>> >> >>,
      << << <<"nationality", 50>>, <<"industry", 50>> >> >>,
      << << <<"complexity", 100>> >> >> }

\* the parties N01 .. hold 5% of R each
LeafRows == [i \in 1..MaxLeaves |-> Own(ChainNames[i], "R", 500)]
\* X holds a quarter of R, and P holds X
BranchRows == <<Own("X", "R", 2500), Own("P", "X", 10000)>>

\* the same rows with the branch in front of the leaves and behind them
StarStores == { BranchRows \o LeafRows, LeafRows \o BranchRows }

RiskStores ==
    { <<>>, <<Own("P", "R", 10000)>>, BranchRows, Reverse(BranchRows) } \cup StarStores

RiskInit ==
    /\ links \in RiskStores
    /\ contacts = Contacts(Range(IdOrder), None)
    /\ set_order = IdOrder
    /\ \E p \in RiskProfiles :
          profiles = [c \in DOMAIN contacts |-> IF c = "R" THEN p ELSE BlankProfile]
    /\ NothingCalled
    /\ NothingStored

RiskNext ==
    \E w \in RiskWeights : ScoreContactRisk([contact_id |-> "R", weights |-> w])

RiskSpec == RiskInit /\ [][RiskNext]_vars

-----------------------------------------------------------------------------
(* resolve_ubos stepped through: the two depth-first searches run one call  *)
(* or return at a time on explicit stacks of their frames, so that a search *)
(* that does not come back shows as a behaviour that never reaches "done".  *)

MaxRunLinks == 2  \* rows of a freely combined store of the stepped resolver
MaxCalls == 2     \* stepped calls followed per behaviour

RunLinkChoices ==
    { Own("X", "R", 5000), Own("R", "X", 10000), Own("P", "X", 6000),
      Own("P", "R", 5000), Own("R", "R", 5000),
      Ctl("P", "R", NoValue, "false"), Rel("Q", "P", "family", "false"),
      Rel("P", "Q", "family", "false") }

RunRequests == { [root |-> "R", sm |-> None], [root |-> "X", sm |-> "Q"] }

RunInit ==
    /\ \/ /\ links \in SeqsUpTo(RunLinkChoices, MaxRunLinks) \cup TriangleStores
          /\ contacts = Contacts(Range(BaseOrder), None)
          /\ set_order \in {BaseOrder, Reverse(BaseOrder)}
       \/ /\ links \in ChainStores
          /\ contacts = Contacts(Range(IdOrder), None)
          /\ set_order \in {IdOrder, Reverse(IdOrder)}
    /\ profiles = BlankProfiles(DOMAIN contacts)
    /\ NothingCalled
    /\ NothingStored

\* dfs(cid) of _find_cycles is called: it returns at once on a party that is on
\* the path, or enters the party and starts on its out-edges
CallCyclesDfs(r, cid) ==
    IF cid \in DictKeys(r.st.in_path) THEN [r EXCEPT !.st = RecordCycle(@, cid)]
    ELSE IF cid \in r.st.path_set THEN r
    ELSE [r EXCEPT !.st = EnterNode(@, cid),
                   !.stack = Append(@, [cid |-> cid,
                                        tos |-> out_edges(r.all_links, cid),
                                        i |-> 1])]

\* dfs(node_id, path, product, depth) of _effective_ownership_paths is called
CallPathsDfs(r, node_id, path, product, depth) ==
    IF PathAbandoned(product, depth) THEN r
    ELSE IF Append(path, node_id) \in r.pst.visited_paths THEN r
    ELSE [r EXCEPT !.pst = VisitNode(@, r.contacts, node_id, path, product),
                   !.pstack = Append(@, [node_id |-> node_id, path |-> path,
                                         product |-> product, depth |-> depth,
                                         owners |-> incoming(r.all_links, node_id),
                                         i |-> 1])]

\* resolve_ubos is entered: the subgraph is loaded; without the root party the
\* call returns at once, else _find_cycles starts with fresh locals
StartResolve(req) ==
    /\ run.pc \in {"idle", "done"}
    /\ run.calls < MaxCalls
    /\ prev' = [req |-> call, result |-> result]
    /\ LET loaded == load_links_and_contacts(links, contacts, req.root)
       IN  IF req.root \notin DOMAIN loaded.contacts
           THEN /\ run' = [run EXCEPT !.pc = "done", !.calls = @ + 1, !.req = req]
                /\ call' = req
                /\ result' = EntityNotFound
           ELSE /\ run' = [run EXCEPT !.pc = "cycles", !.calls = @ + 1, !.req = req,
                                      !.all_links = loaded.all_links,
                                      !.contacts = loaded.contacts,
                                      !.order = IterSet(DOMAIN loaded.contacts, set_order),
                                      !.next = 1,
                                      !.stack = <<>>,
                                      !.st = NewCycleState]
                /\ UNCHANGED <<call, result>>
    /\ UNCHANGED <<contacts, links, set_order, profiles, validation, risk,
                   risk_records, sales>>

\* for cid in contact_ids: if cid not in path_set: dfs(cid)
CyclesLoop ==
    /\ run.pc = "cycles"
    /\ run.stack = <<>>
    /\ run.next <= Len(run.order)
    /\ LET r == [run EXCEPT !.next = @ + 1]
           cid == run.order[run.next]
       IN  run' = IF cid \notin run.st.path_set THEN CallCyclesDfs(r, cid) ELSE r
    /\ UNCHANGED <<contacts, links, set_order, call, result, prev,
                 profiles, validation, risk, risk_records, sales>>

\* the innermost dfs of _find_cycles goes on: it calls dfs on its next
\* out-edge, or leaves its party and returns
CyclesDfs ==
    /\ run.pc = "cycles"
    /\ run.stack # <<>>
    /\ LET top == run.stack[Len(run.stack)]
       IN  run' = IF top.i <= Len(top.tos)
                  THEN CallCyclesDfs([run EXCEPT !.stack[Len(run.stack)].i = @ + 1],
                                     top.tos[top.i])
                  ELSE [run EXCEPT !.stack = SubSeq(@, 1, Len(@) - 1),
                                   !.st = LeaveNode(@, top.cid)]
    /\ UNCHANGED <<contacts, links, set_order, call, result, prev,
                 profiles, validation, risk, risk_records, sales>>

\* _find_cycles returns; _effective_ownership_paths starts with fresh locals
\* and calls dfs(target_contact_id, [], 100.0, 0)
CyclesReturn ==
    /\ run.pc = "cycles"
    /\ run.stack = <<>>
    /\ run.next > Len(run.order)
    /\ run' = CallPathsDfs([run EXCEPT !.pc = "paths", !.pstack = <<>>,
                                       !.pst = NewPathState],
                           run.req.root, <<>>, RatInt(100), 0)
    /\ UNCHANGED <<contacts, links, set_order, call, result, prev,
                 profiles, validation, risk, risk_records, sales>>

\* the innermost dfs of _effective_ownership_paths goes on: it takes its next
\* incoming edge (skipped when the owner is on the path), or returns
PathsDfs ==
    /\ run.pc = "paths"
    /\ run.pstack # <<>>
    /\ LET top == run.pstack[Len(run.pstack)]
           r == [run EXCEPT !.pstack[Len(run.pstack)].i = @ + 1]
       IN  run' = IF top.i <= Len(top.owners)
                  THEN IF OwnerOnPath(top.owners[top.i][1], top.path) THEN r
                       ELSE CallPathsDfs(r, top.owners[top.i][1],
                                         Append(top.path, top.node_id),
                                         Compound(top.product, top.owners[top.i][2]),
                                         top.depth + 1)
                  ELSE [run EXCEPT !.pstack = SubSeq(@, 1, Len(@) - 1)]
    /\ UNCHANGED <<contacts, links, set_order, call, result, prev,
                 profiles, validation, risk, risk_records, sales>>

\* _effective_ownership_paths returns; the rest of resolve_ubos runs and the
\* call returns its result
PathsReturn ==
    /\ run.pc = "paths"
    /\ run.pstack = <<>>
    /\ run' = [run EXCEPT !.pc = "done"]
    /\ call' = run.req
    /\ result' = classify(run.all_links, run.contacts, set_order, run.req.root,
                          run.req.sm, run.st.cycles, run.pst.result)
    /\ UNCHANGED <<contacts, links, set_order, prev, profiles, validation, risk,
                   risk_records, sales>>

RunNext ==
    \/ \E req \in RunRequests : StartResolve(req)
    \/ CyclesLoop
    \/ CyclesDfs
    \/ CyclesReturn
    \/ PathsDfs
    \/ PathsReturn

\* _effective_ownership_paths is under way or about to return: one of
\* PathsDfs and PathsReturn is enabled exactly then, and either changes run
PathsPending == run.pc = "paths"

\* weak fairness of PathsDfs \/ PathsReturn, with its ENABLED written out as
\* PathsPending
PathsFairness == []<>(~PathsPending) \/ []<><<PathsDfs \/ PathsReturn>>_vars

\* a call that was entered keeps running: resolve_ubos is one synchronous
\* function on one thread, and nothing suspends it
RunSpec ==
    /\ RunInit /\ [][RunNext]_vars
    /\ WF_vars(CyclesLoop) /\ WF_vars(CyclesDfs) /\ WF_vars(CyclesReturn)
    /\ PathsFairness

-----------------------------------------------------------------------------
(* Calls that overlap a resolve_ubos call: while the resolver is stepped     *)
(* through, validate_entity and score_contact_risk are called for any party, *)
(* and the caller of score_contact_risk saves what it returned               *)

\* save_risk: the row of the party is updated, or a row is added
\* (last_calculated_at, the time of the call, is left out)
save_risk(records, contact_id, scored) ==
    LET row == [contact_id |-> contact_id, risk_score |-> scored.risk_score,
                risk_band |-> scored.risk_band, factors_json |-> scored.factors_json]
    IN  IF \E i \in 1..Len(records) : records[i].contact_id = contact_id
        THEN [i \in 1..Len(records) |->
                 IF records[i].contact_id = contact_id THEN row ELSE records[i]]
        ELSE Append(records, row)

\* a row of compliance_risk left by an earlier calculation
StaleRecord ==
    [contact_id |-> "P", risk_score |-> <<RatInt(90)>>, risk_band |-> "high",
     factors_json |-> <<[nationality |-> 90, industry |-> 85, complexity |-> 95]>>]

\* stores with individuals to list, with loops and with a family loop
FrameStores ==
    TriangleStores \cup TwoLoopStores \cup
    { <<Own("P", "X", 6000), Own("X", "R", 5000)>>,
      <<Own("P", "R", 5000), Ctl("P", "R", NoValue, "false")>>,
      <<Own("R", "R", 5000), Own("P", "R", 5000)>> }

FrameInit ==
    /\ links \in FrameStores
    /\ contacts = Contacts(Range(BaseOrder), None)
    /\ set_order \in {BaseOrder, Reverse(BaseOrder)}
    /\ profiles = BlankProfiles(DOMAIN contacts)
    /\ NothingCalled
    /\ risk_records = <<StaleRecord>>
    /\ NoSales

\* the parties validate_entity and score_contact_risk are called for meanwhile
MeanwhileRoots == {"X", "P"}

\* validate_entity is called and returns while resolve_ubos is under way
ValidateMeanwhile(root) ==
    /\ run.pc \in {"cycles", "paths"}
    /\ validation.root # root
    /\ validation' = [root |-> root,
                      result |-> validate_entity(links, contacts, set_order, root)]
    /\ UNCHANGED <<contacts, links, set_order, call, result, run, prev, profiles, risk,
                   risk_records, sales>>

\* fault: the scorer saves its result itself
ScoreMeanwhile_saving(req) ==
    /\ run.pc \in {"cycles", "paths"}
    /\ risk.req # req
    /\ risk' = [req |-> req,
                result |-> score_contact_risk(links, contacts, profiles,
                                              req.contact_id, req.weights)]
    /\ risk_records' = save_risk(risk_records, req.contact_id, risk'.result)
    /\ UNCHANGED <<contacts, links, set_order, call, result, run, prev, profiles,
                   validation, sales>>

\* score_contact_risk is called and returns while resolve_ubos is under way
ScoreMeanwhile(req) ==
    /\ run.pc \in {"cycles", "paths"}
    /\ risk.req # req
    /\ risk' = [req |-> req,
                result |-> score_contact_risk(links, contacts, profiles,
                                              req.contact_id, req.weights)]
    /\ UNCHANGED <<contacts, links, set_order, call, result, run, prev, profiles,
                   validation, risk_records, sales>>

\* recalculate_risk after its call of score_contact_risk: the result is saved
SaveRisk ==
    /\ risk.req.contact_id \in DOMAIN contacts
    /\ risk_records' = save_risk(risk_records, risk.req.contact_id, risk.result)
    /\ risk_records' # risk_records
    /\ UNCHANGED <<contacts, links, set_order, call, result, run, prev, profiles,
                   validation, risk, sales>>

FrameNext ==
    \/ RunNext
    \/ \E root \in MeanwhileRoots : ValidateMeanwhile(root)
    \/ \E c \in MeanwhileRoots : ScoreMeanwhile([contact_id |-> c, weights |-> NoValue])
    \/ SaveRisk

FrameSpec == FrameInit /\ [][FrameNext]_vars

-----------------------------------------------------------------------------
(* The sales flow (backend/api/orders.py, backend/api/invoices.py): orders   *)
(* are confirmed and invoices are created.  The id of an invoice or project  *)
(* is its position in its table, 0 standing for None; an invoice number      *)
(* INV-<year>-<n> is its n.                                                   *)

MaxInvoices == 3  \* invoices created per behaviour

\* the products of the organization: creates_project and, in the order of
\* (sort_order, task_name), the task names of their templates
Products ==
    [A |-> [creates_project |-> TRUE, task_names |-> <<"Kickoff", "Filing">>],
     B |-> [creates_project |-> FALSE, task_names |-> <<"Delivery">>]]

\* a sales order: status, contact, confirmed_at set or not, and the product of
\* each line
OrderChoices ==
    { [status |-> st, contact_id |-> c, confirmed_at |-> FALSE, lines |-> ls] :
        st \in {"pending", "cancelled"}, c \in {None, "P"},
        ls \in {<<"B">>, <<"B", "A">>} }

\* next_invoice_number: the count of the year's invoices plus one
next_invoice_number(invs) == Len(invs) + 1

\* db.query(Invoice).filter(Invoice.sales_order_id == order_id).first(), and the
\* same for Project: the id of the first row of the order, or 0
first_of_order(invs, order_id) ==
    IF \E i \in 1..Len(invs) : invs[i].sales_order_id = order_id
    THEN CHOOSE i \in 1..Len(invs) :
            /\ invs[i].sales_order_id = order_id
            /\ \A j \in 1..(i - 1) : invs[j].sales_order_id # order_id
    ELSE 0

\* create_tasks_from_product_templates: one task per template name of the
\* products, in template order
create_tasks_from_product_templates(project_id, product_ids) ==
    LET names == UNION {Range(Products[p].task_names) : p \in product_ids}
        ordered == SelectSeq(<<"Kickoff", "Filing", "Delivery">>, LAMBDA n : n \in names)
    IN  [i \in 1..Len(ordered) |-> [project_id |-> project_id, title |-> ordered[i]]]

\* raise HTTPException(status_code, detail)
Refused(order_id, status_code, detail) ==
    /\ response' = [NoResponse EXCEPT !.status_code = status_code, !.detail = detail,
                                      !.order_id = order_id]
    /\ UNCHANGED <<orders, invoices, projects, tasks>>

\* _order_response with the ids the handler adds
OrderResponse(order_id, status_code, os, invs, projs, new_invoice, new_project) ==
    [status_code |-> status_code, detail |-> "None", order_id |-> order_id,
     status |-> os[order_id].status,
     invoice_id |-> first_of_order(invs, order_id),
     project_id |-> first_of_order(projs, order_id),
     confirmed_invoice_id |-> new_invoice,
     confirmed_project_id |-> new_project]

\* POST /api/orders/{order_id}/confirm
ConfirmOrder(order_id) ==
    /\ IF order_id \notin DOMAIN orders THEN Refused(order_id, 404, "Order not found")
       ELSE IF orders[order_id].status = "cancelled"
       THEN Refused(order_id, 400, "Cannot confirm cancelled order")
       ELSE IF first_of_order(invoices, order_id) # 0
       THEN Refused(order_id, 400, "Order already confirmed")
       ELSE IF orders[order_id].contact_id = None
       THEN Refused(order_id, 400, "Order has no contact; set contact before confirming")
       ELSE LET o == orders[order_id]
                inv == [number |-> next_invoice_number(invoices),
                        contact_id |-> o.contact_id, sales_order_id |-> order_id]
                product_ids_creating_project ==
                    {o.lines[i] : i \in {j \in 1..Len(o.lines) :
                                            /\ o.lines[j] \in DOMAIN Products
                                            /\ Products[o.lines[j]].creates_project}}
                proj == [contact_id |-> o.contact_id, invoice_id |-> Len(invoices) + 1,
                         sales_order_id |-> order_id]
                created == product_ids_creating_project # {}
            IN  /\ invoices' = Append(invoices, inv)
                /\ projects' = IF created THEN Append(projects, proj) ELSE projects
                /\ tasks' = IF created
                            THEN tasks \o create_tasks_from_product_templates(
                                              Len(projects) + 1,
                                              product_ids_creating_project)
                            ELSE tasks
                /\ orders' = [orders EXCEPT ![order_id].status = "confirmed",
                                            ![order_id].confirmed_at = TRUE]
                /\ response' = OrderResponse(order_id, 200, orders', invoices', projects',
                                             Len(invoices'),
                                             IF created THEN Len(projects') ELSE 0)
    /\ UNCHANGED <<contacts, links, set_order, call, result, run, prev, profiles,
                   validation, risk, risk_records>>

\* POST /api/invoices with contact_id and sales_order_id: an invoice from the
\* lines of the order
CreateInvoice(contact_id, order_id) ==
    /\ Len(invoices) < MaxInvoices
    /\ IF contact_id \notin DOMAIN contacts THEN Refused(order_id, 404, "Contact not found")
       ELSE IF order_id \notin DOMAIN orders THEN Refused(order_id, 404, "Order not found")
       ELSE /\ invoices' = Append(invoices,
                                  [number |-> next_invoice_number(invoices),
                                   contact_id |-> contact_id,
                                   sales_order_id |-> order_id])
            /\ response' = [NoResponse EXCEPT !.status_code = 201, !.order_id = order_id,
                                              !.invoice_id = Len(invoices')]
            /\ UNCHANGED <<orders, projects, tasks>>
    /\ UNCHANGED <<contacts, links, set_order, call, result, run, prev, profiles,
                   validation, risk, risk_records>>

OrderIds == {"O1", "O2"}

OrderInit ==
    /\ links = <<>>
    /\ contacts = Contacts(Range(BaseOrder), None)
    /\ set_order = BaseOrder
    /\ profiles = BlankProfiles(DOMAIN contacts)
    /\ NothingCalled
    /\ risk_records = <<>>
    /\ orders \in [OrderIds -> OrderChoices]
    /\ invoices = <<>>
    /\ projects = <<>>
    /\ tasks = <<>>
    /\ response = NoResponse

OrderNext ==
    \/ \E o \in OrderIds \cup {"O9"} : ConfirmOrder(o)
    \/ \E o \in OrderIds \cup {"O9"}, c \in {"P", "Z"} : CreateInvoice(c, o)

OrderSpec == OrderInit /\ [][OrderNext]_vars

-----------------------------------------------------------------------------
(* The stepped resolver returns what the whole-call operator computes (on   *)
(* the stores short enough for the operator's recursion).                   *)
SteppedAgreesWithWhole ==
    (run.pc = "done" /\ Len(links) <= 4) =>
        result = resolve_ubos(links, contacts, set_order, call.root, call.sm)

-----------------------------------------------------------------------------
(* Vocabulary of the properties *)

Called == call # NoCall
RootExists == call.root \in DOMAIN contacts

UboIds == {result.ubos[i].contact_id : i \in 1..Len(result.ubos)}
FallbackEntries == {i \in 1..Len(result.ubos) : result.ubos[i].is_senior_manager_fallback}
RegularEntries == {i \in 1..Len(result.ubos) : ~result.ubos[i].is_senior_manager_fallback}

Individuals == {c \in DOMAIN contacts : contacts[c].contact_type = "individual"}
LinkSet == {links[i] : i \in 1..Len(links)}

\* what the aggregator assigns to each individual it reaches from the root of
\* the call, before rounding
Aggregated ==
    LET loaded == load_links_and_contacts(links, contacts, call.root)
    IN  aggregate_effective(
            effective_ownership_paths(loaded.all_links, loaded.contacts, call.root))

\* the individuals at or above the threshold
ByThreshold ==
    {c \in DictKeys(Aggregated) : Geq(DictGet(Aggregated, c, RatInt(0)), RatInt(UBO_THRESHOLD))}

\* the individuals with a control or director row straight into the root that
\* is not flagged nominee
ByControl ==
    {c \in Individuals : \E l \in LinkSet :
        /\ l.owner_contact_id = c
        /\ l.owned_contact_id = call.root
        /\ l.link_type \in {"control", "director"}
        /\ l.is_nominee # "true"}

Qualifying == ByThreshold \cup ByControl

-----------------------------------------------------------------------------
\* C1: for an existing root with at least one qualifying individual, the ubos
\* list names exactly the individuals whose aggregated effective percentage is
\* at least UBO_THRESHOLD (25.00 qualifies, 24.99 does not) or who hold a
\* non-nominee control or director row into the root, none of them as fallback.
C1_UbosAreExactlyTheQualifying ==
    (Called /\ RootExists /\ Qualifying # {}) =>
        /\ UboIds = Qualifying
        /\ FallbackEntries = {}

\* an individual who reaches exactly 25 over two paths is listed
C1_Witness ==
    /\ Called /\ call.root = "R"
    /\ \E c \in DictKeys(Aggregated) :
          /\ DictGet(Aggregated, c, RatInt(0)) = RatInt(UBO_THRESHOLD)
          /\ c \in UboIds
          /\ Len(links) = 3

-----------------------------------------------------------------------------
(* Single chains *)

Into(node) == {i \in 1..Len(links) : links[i].owned_contact_id = node}

\* follow the only row into each party, from `node` upward: the party without
\* a row into it that is reached after k rows, or None when a party has two
\* rows into it or the walk does not end
RECURSIVE ChainTop(_, _)
ChainTop(node, k) ==
    IF Into(node) = {} THEN [top |-> node, n |-> k]
    ELSE IF Cardinality(Into(node)) = 1 /\ k < Len(links)
         THEN ChainTop(links[CHOOSE i \in Into(node) : TRUE].owner_contact_id, k + 1)
         ELSE [top |-> None, n |-> 0]

\* the store is one chain of ownership rows from an individual through
\* companies to the root of the call, with percentages in [0, 100], and nothing else
SingleChain ==
    /\ Len(links) >= 1
    /\ \A l \in LinkSet : /\ l.link_type = "ownership"
                          /\ l.percentage # NoValue
                          /\ l.percentage[1] >= 0 /\ l.percentage[1] <= 10000
                          /\ contacts[l.owned_contact_id].contact_type = "company"
    /\ ChainTop(call.root, 0).n = Len(links)
    /\ ChainTop(call.root, 0).top \in Individuals

\* 100 x (p1/100) x ... x (pn/100)
RECURSIVE ChainProduct(_)
ChainProduct(i) ==
    IF i = 0 THEN RatInt(100)
    ELSE Mul(ChainProduct(i - 1), Norm(links[i].percentage[1], 10000))

\* the aggregate of the stepped call that has returned
RunAggregated == aggregate_effective(run.pst.result)

ChainResultIsProduct ==
    LET top == ChainTop(call.root, 0).top
        product == ChainProduct(Len(links))
    IN  /\ DictGet(RunAggregated, top, RatInt(0)) = product
        /\ DictGet(result.effective_ownership, top, RatInt(0)) = Round2(product)
        /\ Geq(product, RatInt(UBO_THRESHOLD)) =>
              \E i \in 1..Len(result.ubos) :
                  /\ result.ubos[i].contact_id = top
                  /\ result.ubos[i].effective_pct = Round2(product)

\* C2 as stated: on every single chain of ownership edges from an individual to
\* the root the individual's effective percentage is 100 x (p1/100) x ... x
\* (pn/100) (an individual without an entry counting as 0), returned rounded to
\* two decimals and listed with it from 25 on; 60% of X with X holding 50% of
\* the root gives 30.0.
C2_ChainProduct_AsStated ==
    (run.pc = "done" /\ RootExists /\ SingleChain) => ChainResultIsProduct

\* C2 amended: the same on every chain of at most MAX_DEPTH edges.
C2_ChainProductWithinDepth ==
    (run.pc = "done" /\ RootExists /\ SingleChain /\ Len(links) <= MAX_DEPTH) =>
        ChainResultIsProduct

\* P holds 60% of X, X holds 50% of the root: P is listed with 30.0
C2_Witness ==
    /\ run.pc = "done" /\ call.root = "R"
    /\ LinkSet = {Own("P", "X", 6000), Own("X", "R", 5000)}
    /\ Len(links) = 2
    /\ result.ubos = <<UboEntry("P", RatInt(30), FALSE, FALSE)>>
    /\ result.effective_ownership = << <<"P", RatInt(30)>> >>

-----------------------------------------------------------------------------
(* Ownership accounted in full *)

\* the parties with a row into one of S
OwnersOf(S) == {l.owner_contact_id : l \in {m \in LinkSet : m.owned_contact_id \in S}}

RECURSIVE UpFrom(_, _)
UpFrom(S, k) == IF k = 0 THEN S ELSE UpFrom(S \cup OwnersOf(S), k - 1)

\* the owners of c, direct and indirect
Upstream(c) == UpFrom(OwnersOf({c}), Cardinality(DOMAIN contacts))

Acyclic == \A c \in DOMAIN contacts : c \notin Upstream(c)

OwnershipOnly ==
    \A l \in LinkSet : /\ l.link_type = "ownership"
                       /\ l.percentage # NoValue
                       /\ l.percentage[1] > 0

RECURSIVE SumOver(_, _)
SumOver(S, f) ==
    IF S = {} THEN RatInt(0)
    ELSE LET x == CHOOSE y \in S : TRUE IN Add(f[x], SumOver(S \ {x}, f))

\* the ownership percentages held in c, row by row
HeldIn(c) == total_ownership(links, c)

\* every party at or above the root either has no owner recorded and is an
\* individual, or is held to exactly 100%
FullyHeldAtEveryLevel ==
    \A c \in {call.root} \cup Upstream(call.root) :
        IF Into(c) = {} THEN c \in Individuals ELSE HeldIn(c) = RatInt(100)

LeafIndividuals ==
    {c \in ({call.root} \cup Upstream(call.root)) \cap Individuals : Into(c) = {}}

\* C3 as stated: on an acyclic graph of ownership edges that sum to exactly 100%
\* at every level, the effective percentages of the leaf individuals sum to
\* 100% within 0.01.
C3_LeafSharesSumTo100 ==
    (Called /\ RootExists /\ OwnershipOnly /\ Acyclic /\ FullyHeldAtEveryLevel) =>
        Leq(RatAbs(Sub(SumOver(LeafIndividuals,
                               [c \in LeafIndividuals |-> DictGet(Aggregated, c, RatInt(0))]),
                       RatInt(100))),
            [n |-> 1, d |-> 100])

\* the same, when no two rows join the same owner to the same party
C3_WithoutParallelRows ==
    (\A i, j \in 1..Len(links) :
        (/\ links[i].owner_contact_id = links[j].owner_contact_id
         /\ links[i].owned_contact_id = links[j].owned_contact_id) => i = j)
    => C3_LeafSharesSumTo100

-----------------------------------------------------------------------------
(* Cycles and termination of the stepped resolver *)

Running == run.pc \in {"cycles", "paths"}
Returned == run.pc = "done"

Successors(ls, c) ==
    {ls[i].owned_contact_id : i \in {j \in 1..Len(ls) : ls[j].owner_contact_id = c}}

\* the paths without a repeated party that extend `paths` by at most k edges
RECURSIVE SimplePaths(_, _, _)
SimplePaths(ls, paths, k) ==
    IF k = 0 \/ paths = {} THEN paths
    ELSE paths \cup
         SimplePaths(ls,
                     UNION {{Append(q, w) : w \in Successors(ls, q[Len(q)]) \ Range(q)}
                            : q \in paths},
                     k - 1)

\* the directed cycles through two parties or more, each as the path that an
\* edge closes
DirectedCycles(ls, ids) ==
    {q \in SimplePaths(ls, {<<c>> : c \in ids}, Cardinality(ids)) :
        Len(q) >= 2 /\ q[1] \in Successors(ls, q[Len(q)])}

\* what is left of `nodes` once the parties without an edge to another
\* remaining party have been taken away, again and again
RECURSIVE OnCycles(_, _)
OnCycles(edges, nodes) ==
    LET inner == {c \in nodes : \E e \in edges : e[1] = c /\ e[2] \in nodes \ {c}}
    IN  IF inner = nodes THEN nodes ELSE OnCycles(edges, inner)

\* the subgraph the running call searches has a directed cycle through two
\* parties or more
RunHasCycle ==
    /\ run.pc # "idle"
    /\ OnCycles({<<run.all_links[i].owner_contact_id, run.all_links[i].owned_contact_id>>
                    : i \in 1..Len(run.all_links)},
                DOMAIN run.contacts) # {}

CyclesFound ==
    \A q \in DirectedCycles(run.all_links, DOMAIN run.contacts) :
        \E i \in 1..Len(run.st.cycles) :
            /\ run.st.cycles[i] # <<>>
            /\ Range(run.st.cycles[i]) = Range(q)

RecursionBounded ==
    /\ Len(run.stack) <= Cardinality(DOMAIN run.contacts)
    /\ Len(run.pstack) <= MAX_DEPTH + 1

\* C4: on an edge set with a directed cycle of two parties or more, the call
\* returns (both searches come back, their recursion staying within the number
\* of parties and within MAX_DEPTH + 1 frames), and for every such cycle the
\* returned cycles hold a non-empty entry made of exactly its parties.
C4_CyclesFoundAndCallReturns ==
    /\ [](RunHasCycle => RecursionBounded)
    /\ []((RunHasCycle /\ Returned /\ RootExists) =>
            (CyclesFound /\ result.cycles = run.st.cycles))
    /\ ((RunHasCycle /\ Running) ~> Returned)

\* a call on a cycle through three parties has returned with the cycle reported
C4_Witness ==
    /\ Returned /\ RootExists
    /\ \E q \in DirectedCycles(run.all_links, DOMAIN run.contacts) : Len(q) = 3
    /\ result.cycles # <<>>

-----------------------------------------------------------------------------
\* C5: a second call with the arguments of the first, on the same store and
\* with the same iteration order, returns exactly what the first returned:
\* ubos, effective_ownership, cycles and warnings, in the same order.
C5_SecondCallReturnsTheSame ==
    (Returned /\ run.calls = 2 /\ prev.req = call) => result = prev.result

\* the repeated call had individuals, cycles and warnings to report
C5_Witness ==
    /\ Returned /\ run.calls = 2 /\ prev.req = call
    /\ result.ubos # <<>> /\ result.cycles # <<>> /\ result.warnings # <<>>
    /\ result.effective_ownership # <<>>

-----------------------------------------------------------------------------
(* Senior-manager fallback *)

FallbackEntry(c) == UboEntry(c, RatInt(0), FALSE, TRUE)

\* C6 as stated: when nobody qualifies by threshold or control and the
\* identifier of an individual of the organization is supplied, the result
\* holds exactly one entry, the fallback for that individual with percentage 0,
\* also for a root without any relationship row.
C6_FallbackWheneverSupplied ==
    (/\ Called /\ RootExists /\ Qualifying = {}
     /\ call.sm # None /\ call.sm \in Individuals) =>
        result.ubos = <<FallbackEntry(call.sm)>>

\* C7 as stated: with an explicit identifier supplied, a fallback entry names
\* that party; the root's stored senior manager is not consulted.
C7_ExplicitIdentifierOnly ==
    (Called /\ call.sm # None) =>
        \A i \in FallbackEntries : result.ubos[i].contact_id = call.sm

\* C8: at most one entry is a fallback entry, and then it is the only entry.
C8_FallbackIsAlone ==
    Called => /\ Cardinality(FallbackEntries) <= 1
              /\ FallbackEntries # {} => Len(result.ubos) = 1

\* the fallback was emitted
C8_Witness == Called /\ FallbackEntries # {} /\ Len(links) >= 1

-----------------------------------------------------------------------------
(* Nominee and control *)

RowsOf(c) == {l \in LinkSet : l.owner_contact_id = c \/ l.owned_contact_id = c}

\* c's only rows are control or director rows of its own into the root, all
\* flagged nominee
OnlyNomineeControl(c) ==
    /\ RowsOf(c) # {}
    /\ \A l \in RowsOf(c) : /\ l.owner_contact_id = c
                            /\ l.owned_contact_id = call.root
                            /\ l.link_type \in {"control", "director"}
                            /\ l.is_nominee = "true"

\* C9 as stated: an individual whose only edges toward the root are nominee
\* control or director edges is not listed, except as the fallback.
C9_NomineeNeverListed ==
    (Called /\ RootExists) =>
        \A c \in Individuals \ {call.root} :
            OnlyNomineeControl(c) =>
                \A i \in RegularEntries : result.ubos[i].contact_id # c

\* c's only rows are non-nominee control or director rows of its own into the root
OnlyDirectControl(c) ==
    /\ RowsOf(c) # {}
    /\ \A l \in RowsOf(c) : /\ l.owner_contact_id = c
                            /\ l.owned_contact_id = call.root
                            /\ l.link_type \in {"control", "director"}
                            /\ l.is_nominee # "true"

\* c's rows are all ownership rows
OnlyOwnership(c) ==
    /\ RowsOf(c) # {}
    /\ \A l \in RowsOf(c) : l.link_type = "ownership"

\* C10 as stated: a listed individual whose only relationship is a direct,
\* non-nominee control or director edge into the root has is_control = true;
\* a listed individual related through ownership edges only has is_control = false.
C10_LegalBasisFlag ==
    (Called /\ RootExists) =>
        \A i \in RegularEntries :
            LET c == result.ubos[i].contact_id
            IN  /\ (c # call.root /\ OnlyDirectControl(c)) => result.ubos[i].is_control
                /\ OnlyOwnership(c) => ~result.ubos[i].is_control

-----------------------------------------------------------------------------
(* validate_entity *)

Validated == validation.root # None
ValidatedRootExists == Validated /\ validation.root \in DOMAIN contacts

\* what validate_entity loaded for its root
Loaded == load_links_and_contacts(links, contacts, validation.root)

OwnsOwnershipRow(c) ==
    \E i \in 1..Len(Loaded.all_links) :
        /\ Loaded.all_links[i].owner_contact_id = c
        /\ Loaded.all_links[i].link_type = "ownership"

\* C11 as stated: dead_ends holds, once each, exactly the companies of the
\* loaded subgraph other than the root that own at least one ownership row and
\* for which resolve_ubos returns no UBO; a company that owns only rows of
\* other kinds, an individual and the root are never in it.
C11_DeadEndsOwnOwnershipRows ==
    ValidatedRootExists =>
        /\ Range(validation.result.dead_ends) =
              {c \in DOMAIN Loaded.contacts :
                  /\ contacts[c].contact_type = "company"
                  /\ c # validation.root
                  /\ OwnsOwnershipRow(c)
                  /\ resolve_ubos(links, contacts, set_order, c, None).ubos = <<>>}
        /\ Cardinality(Range(validation.result.dead_ends)) = Len(validation.result.dead_ends)

\* company a holds 100% of company b by the only row of the store, and
\* neither has a senior manager recorded
SoleCorporateHolder(a, b) ==
    /\ links = <<Own(a, b, 10000)>>
    /\ a # b
    /\ contacts[a].contact_type = "company" /\ contacts[b].contact_type = "company"
    /\ contacts[a].senior_manager_contact_id = None
    /\ contacts[b].senior_manager_contact_id = None

\* C12: for root company B whose only row is 100% ownership by company A,
\* nothing being known above A and no senior manager recorded, validate_entity
\* returns dead_ends = [A], ownership_sum_valid = true, total_percentage = 100
\* and cycles = [].
C12_SoleCorporateHolderIsDeadEnd ==
    \A a, b \in DOMAIN contacts :
        (Validated /\ validation.root = b /\ SoleCorporateHolder(a, b)) =>
            /\ validation.result.dead_ends = <<a>>
            /\ validation.result.ownership_sum_valid
            /\ validation.result.total_percentage = RatInt(100)
            /\ validation.result.cycles = <<>>

\* validate_entity(R) has returned on the store X -100%-> R
C12_Witness ==
    /\ Validated /\ validation.root = "R" /\ SoleCorporateHolder("X", "R")
    /\ validation.result.dead_ends = <<"X">>

\* the ownership rows into the root of the validation, and their sum
DirectRows ==
    {i \in 1..Len(links) : /\ links[i].owned_contact_id = validation.root
                           /\ links[i].link_type = "ownership"}
DirectSum ==
    SumOver(DirectRows,
            [i \in DirectRows |-> IF links[i].percentage = NoValue THEN RatInt(0)
                                  ELSE ToFloat(links[i].percentage[1])])

WithinHundredth(total) == Leq(RatAbs(Sub(total, RatInt(100))), [n |-> 1, d |-> 100])

\* resolve_ubos on the same root adds its warning about the total
ResolverWarnsOfTotal ==
    \E w \in Range(resolve_ubos(links, contacts, set_order, validation.root, None).warnings) :
        w.text = SumWarning(RatInt(0)).text

TotalIsDirectSum == validation.result.total_percentage = Round2(DirectSum)
WarningIffInvalid == ResolverWarnsOfTotal <=> ~validation.result.ownership_sum_valid

\* C13 as stated: total_percentage is the sum of the percentages of the
\* ownership rows into the root, ownership_sum_valid is true exactly when that
\* sum is within 0.01 of 100, the boundary included, and resolve_ubos warns of
\* the total on exactly the snapshots for which ownership_sum_valid is false.
C13_ValidWithinHundredthInclusive ==
    ValidatedRootExists =>
        /\ TotalIsDirectSum
        /\ validation.result.ownership_sum_valid <=> WithinHundredth(DirectSum)
        /\ WarningIffInvalid

\* C13 without the boundary: the total and the agreement of the two warnings
C13_TotalAndWarningsAgree ==
    ValidatedRootExists =>
        /\ TotalIsDirectSum
        /\ WarningIffInvalid
        /\ ~WithinHundredth(DirectSum) => ~validation.result.ownership_sum_valid
        /\ Lt(RatAbs(Sub(DirectSum, RatInt(100))), [n |-> 1, d |-> 100])
              => validation.result.ownership_sum_valid

-----------------------------------------------------------------------------
(* The cycles returned by resolve_ubos *)

\* what resolve_ubos loaded for its root
CallLoaded == load_links_and_contacts(links, contacts, call.root)

Edge(ls, a, b) == b \in Successors(ls, a)

\* the simple directed cycles of ls over ids, a loop on one party included,
\* each as the path that an edge closes
SimpleCycles(ls, ids) ==
    {q \in SimplePaths(ls, {<<c>> : c \in ids}, Cardinality(ids)) :
        Edge(ls, q[Len(q)], q[1])}

Rotations(q) ==
    {[i \in 1..Len(q) |-> q[((i + k - 1) % Len(q)) + 1]] : k \in 0..(Len(q) - 1)}

\* entry c closes on its first party, follows edges, repeats no other party
WellFormedCycle(ls, c) ==
    /\ Len(c) >= 2
    /\ c[1] = c[Len(c)]
    /\ \A i \in 1..(Len(c) - 1) : Edge(ls, c[i], c[i + 1])
    /\ \A i, j \in 1..(Len(c) - 1) : i # j => c[i] # c[j]

\* C14: every entry of the returned cycles starts and ends with the same
\* party, follows edges of the loaded rows and repeats no other party; and
\* every simple directed cycle of the loaded subgraph, cycles without a common
\* party included, is among the entries (from one of its parties on).
C14_CyclesAreTheSimpleCycles ==
    (Called /\ RootExists) =>
        /\ \A i \in 1..Len(result.cycles) :
              WellFormedCycle(CallLoaded.all_links, result.cycles[i])
        /\ \A q \in SimpleCycles(CallLoaded.all_links, DOMAIN CallLoaded.contacts) :
              \E i \in 1..Len(result.cycles) : \E r \in Rotations(q) :
                  result.cycles[i] = Append(r, r[1])

\* the loop between R and X and the family loop between P and Q were both returned
C14_Witness ==
    /\ Called /\ RootExists /\ links \in TwoLoopStores
    /\ \E i \in 1..Len(result.cycles) : Range(result.cycles[i]) = {"R", "X"}
    /\ \E i \in 1..Len(result.cycles) : Range(result.cycles[i]) = {"P", "Q"}

-----------------------------------------------------------------------------
(* Rows of kind employee and family *)

\* the store without its employee and family rows
CoreLinks == SelectSeq(links, LAMBDA l : l.link_type \notin {"employee", "family"})

\* C15 as stated: employee and family rows take no part: resolve_ubos (ubos,
\* effective_ownership, cycles, warnings) and validate_entity (cycles,
\* dead_ends, warnings) return for every root what they return on the store
\* without these rows; a loop of family rows is not reported as a cycle.
C15_EmployeeAndFamilyRowsIgnored ==
    /\ Called =>
          result = resolve_ubos(CoreLinks, contacts, set_order, call.root, call.sm)
    /\ Validated =>
          LET without == validate_entity(CoreLinks, contacts, set_order, validation.root)
          IN  /\ validation.result.cycles = without.cycles
              /\ validation.result.dead_ends = without.dead_ends
              /\ validation.result.warnings = without.warnings

-----------------------------------------------------------------------------
(* The reach of _load_links_and_contacts *)

\* the parties at most k rows away from ids, rows followed in either direction
RECURSIVE WithinHops(_, _, _)
WithinHops(ls, ids, k) ==
    IF k = 0 THEN ids
    ELSE LET next == ids \cup EndPoints(TouchingLinks(ls, ids))
         IN  IF next = ids THEN ids ELSE WithinHops(ls, next, k - 1)

\* the stepped resolver has loaded the subgraph of a root that exists
RunLoaded == run.pc # "idle" /\ run.req.root \in DOMAIN contacts

\* C16 as stated: the loader returns the parties within MAX_DEPTH = 20 rows of
\* the root, rows followed in either direction, and exactly the rows with both
\* ends among them; no party more than 20 rows away is returned.
C16_LoaderStaysWithinMaxDepth ==
    RunLoaded =>
        LET near == WithinHops(links, {run.req.root}, MAX_DEPTH)
        IN  /\ DOMAIN run.contacts = near \cap DOMAIN contacts
            /\ run.all_links = SelectSeq(links, LAMBDA l : /\ l.owner_contact_id \in near
                                                           /\ l.owned_contact_id \in near)

-----------------------------------------------------------------------------
(* A root that names no party *)

NotFoundWarnings == <<[text |-> "Entity not found", total |-> RatInt(0)]>>
Scored == risk.req.contact_id # None

\* C17: for a root that names no party of the organization, rows naming it or
\* not, resolve_ubos returns no ubos, no effective ownership, no cycles and
\* the single warning "Entity not found"; validate_entity returns
\* ownership_sum_valid false, total_percentage 0, no dead ends, no cycles and
\* the same warning; score_contact_risk returns risk_score, risk_band and
\* factors_json all None.
C17_UnknownRootGivesEmptyResult ==
    /\ Called /\ ~RootExists =>
          result = [ubos |-> <<>>, effective_ownership |-> <<>>, cycles |-> <<>>,
                    warnings |-> NotFoundWarnings]
    /\ Validated /\ ~ValidatedRootExists =>
          validation.result = [ownership_sum_valid |-> FALSE,
                               total_percentage |-> RatInt(0),
                               dead_ends |-> <<>>, cycles |-> <<>>,
                               warnings |-> NotFoundWarnings]
    /\ Scored /\ risk.req.contact_id \notin DOMAIN contacts =>
          /\ risk.result.risk_score = NoValue
          /\ risk.result.risk_band = None
          /\ risk.result.factors_json = NoValue

\* resolve_ubos was called for an identifier without a party that a row names
\* as owner and as owned
C17_Witness ==
    /\ Called /\ ~RootExists
    /\ \E i \in 1..Len(links) : links[i].owner_contact_id = call.root
    /\ \E i \in 1..Len(links) : links[i].owned_contact_id = call.root
    /\ result.warnings = NotFoundWarnings

-----------------------------------------------------------------------------
(* The scenario of the general trading company *)

BlankText(t) == t = NoValue \/ Strip(t[1]) = <<>>
GeneralTrading ==
    <<"g", "e", "n", "e", "r", "a", "l", " ", "t", "r", "a", "d", "i", "n", "g">>

\* R, without country and nationality and with the declared activity "general
\* trading", is scored on a store without rows under the default weights
GeneralTradingScored ==
    /\ Scored
    /\ risk.req.contact_id = "R"
    /\ risk.req.weights = NoValue
    /\ links = <<>>
    /\ BlankText(profiles["R"].country)
    /\ BlankText(profiles["R"].nationality)
    /\ profiles["R"].activity_license_activities = <<GeneralTrading>>

\* C18 as stated: the scenario gives the factors nationality = 50, industry =
\* 25, complexity = 20, risk_score = 33.5 and risk_band = "low".
C18_GeneralTradingScoresLow ==
    GeneralTradingScored =>
        /\ risk.result.factors_json =
              <<[nationality |-> 50, industry |-> 25, complexity |-> 20]>>
        /\ risk.result.risk_score = <<Norm(335, 10)>>
        /\ risk.result.risk_band = "low"

\* C18 amended: "trading" is a medium-risk keyword, so the scenario gives the
\* factors nationality = 50, industry = 55, complexity = 20, risk_score =
\* (50*40 + 55*30 + 20*30)/100 = 42.5 and risk_band = "medium".
C18_GeneralTradingScoresMedium ==
    GeneralTradingScored =>
        /\ risk.result.factors_json =
              <<[nationality |-> 50, industry |-> 55, complexity |-> 20]>>
        /\ risk.result.risk_score = <<Norm(425, 10)>>
        /\ risk.result.risk_band = "medium"

C18_Witness ==
    /\ GeneralTradingScored
    /\ profiles["R"].country = NoValue
    /\ risk.result.risk_band = "medium"

-----------------------------------------------------------------------------
(* The weights the caller supplies *)

\* the sum of the values of a dict of numbers
RECURSIVE DictSum(_)
DictSum(d) == IF d = <<>> THEN 0 ELSE d[1][2] + DictSum(Tail(d))

\* the sum of factor x weight over the keys of the dict
RECURSIVE WeightedFactors(_, _)
WeightedFactors(d, factors) ==
    IF d = <<>> THEN 0 ELSE factors[d[1][1]] * d[1][2] + WeightedFactors(Tail(d), factors)

\* a party was scored under a weight map of the caller's with a positive sum
ScoredWithSuppliedWeights ==
    /\ Scored
    /\ risk.result.risk_score # NoValue
    /\ risk.req.weights # NoValue
    /\ risk.req.weights[1] # <<>>
    /\ DictSum(risk.req.weights[1]) > 0

\* C19 as stated: the composite score is the weighted average of the
\* sub-scores over the keys the caller supplied, normalised by the sum of the
\* supplied weights (a key left out contributes nothing), rounded to one
\* decimal, and it lies in 0..100.
C19_NormalisedBySuppliedWeights ==
    ScoredWithSuppliedWeights =>
        LET w == risk.req.weights[1]
            score == risk.result.risk_score[1]
        IN  /\ score = Round1(Norm(WeightedFactors(w, risk.result.factors_json[1]),
                                   DictSum(w)))
            /\ Geq(score, RatInt(0))
            /\ Leq(score, RatInt(100))

-----------------------------------------------------------------------------
(* The order in which the store returns the rows *)

\* C20 as stated: the factors, the score and the band are a function of the
\* party's attributes, the weights and the set of rows: the same snapshot with
\* its rows returned in the opposite order gives the same result.
C20_ScoreIndependentOfRowOrder ==
    Scored =>
        risk.result = score_contact_risk(Reverse(links), contacts, profiles,
                                         risk.req.contact_id, risk.req.weights)

-----------------------------------------------------------------------------
(* Percentages outside 0..100 *)

\* the rows are ownership rows with a percentage, each from another individual
\* straight into the root of the call, a company
DirectHoldersOnly(root) ==
    /\ root \in DOMAIN contacts
    /\ contacts[root].contact_type = "company"
    /\ Len(links) >= 1
    /\ \A l \in LinkSet : /\ l.link_type = "ownership"
                          /\ l.percentage # NoValue
                          /\ l.owned_contact_id = root
                          /\ l.owner_contact_id \in Individuals
    /\ Cardinality({l.owner_contact_id : l \in LinkSet}) = Len(links)

OutOfRange(l) == l.percentage[1] < 0 \/ l.percentage[1] > 10000

\* C21 as stated: a percentage above 100 or below 0 is neither rejected nor
\* clamped: the aggregator multiplies by it as it is, so a direct holder's
\* effective percentage is the percentage of its row, and the validator's
\* total includes it as it is.
C21_OutOfRangePassedThrough ==
    /\ Called /\ DirectHoldersOnly(call.root) =>
          \A l \in LinkSet :
              OutOfRange(l) =>
                  /\ l.owner_contact_id \in DictKeys(result.effective_ownership)
                  /\ DictGet(result.effective_ownership, l.owner_contact_id, RatInt(0))
                        = Round2(ToFloat(l.percentage[1]))
    /\ Validated /\ DirectHoldersOnly(validation.root) =>
          validation.result.total_percentage =
              Round2(SumOver(LinkSet, [l \in LinkSet |-> ToFloat(l.percentage[1])]))

-----------------------------------------------------------------------------
(* Read-only and stateless calls *)

\* C22: resolve_ubos, validate_entity and score_contact_risk change no stored
\* row: the relationship rows, the parties and their attributes are never
\* changed, and a risk record changes only when the caller saves a score; and
\* each call that overlapped calls for other parties returned what it returns
\* alone on the same store.
C22_ReadOnlyAndStateless ==
    /\ [](run.pc = "done" =>
            result = resolve_ubos(links, contacts, set_order, call.root, call.sm))
    /\ [](validation.root # None =>
            validation.result = validate_entity(links, contacts, set_order,
                                                validation.root))
    /\ [](risk.req.contact_id # None =>
            risk.result = score_contact_risk(links, contacts, profiles,
                                             risk.req.contact_id, risk.req.weights))
    /\ [][/\ links' = links
          /\ contacts' = contacts
          /\ profiles' = profiles
          /\ risk_records' # risk_records => SaveRisk]_vars

\* a resolve_ubos call for R returned with somebody to list after
\* validate_entity and score_contact_risk were called for other parties while
\* it ran, and the stale risk record is still the stored one
C22_Witness ==
    /\ run.pc = "done" /\ call.root = "R" /\ result.ubos # <<>>
    /\ validation.root \in MeanwhileRoots
    /\ risk.req.contact_id \in MeanwhileRoots
    /\ risk_records = <<StaleRecord>>

-----------------------------------------------------------------------------
(* One invoice per sales order *)

InvoicesOf(o) == {i \in 1..Len(invoices) : invoices[i].sales_order_id = o}
ProjectsOf(o) == {i \in 1..Len(projects) : projects[i].sales_order_id = o}
CreatesProject(o) ==
    \E i \in 1..Len(orders[o].lines) : Products[orders[o].lines[i]].creates_project

\* the step confirms o for the first time: one invoice of the order is added,
\* with a project and its tasks when a product asks for one, and the order is
\* confirmed and answered with its invoice and project
FirstConfirm(o) ==
    /\ response'.status_code = 200
    /\ Len(invoices') = Len(invoices) + 1
    /\ invoices'[Len(invoices')].sales_order_id = o
    /\ orders'[o].status = "confirmed"
    /\ response'.status = "confirmed"
    /\ response'.invoice_id = Len(invoices')
    /\ IF CreatesProject(o)
       THEN /\ Len(projects') = Len(projects) + 1
            /\ projects'[Len(projects')].sales_order_id = o
            /\ Len(tasks') > Len(tasks)
            /\ response'.project_id = Len(projects')
       ELSE projects' = projects /\ tasks' = tasks

\* the step refuses to confirm o again
LaterConfirm(o) ==
    /\ response'.status_code = 400
    /\ invoices' = invoices /\ projects' = projects /\ tasks' = tasks

\* C23 as stated: a sales order has at most one invoice; the first
\* confirm_order of an order that is not cancelled and has a contact creates
\* exactly one invoice of the order (and one project with tasks when a line's
\* product has creates_project) and sets the order to confirmed with its
\* invoice and project; every later confirm_order of the order returns 400
\* and creates nothing.
C23_OneInvoicePerOrder ==
    /\ [](\A o \in OrderIds : Cardinality(InvoicesOf(o)) <= 1)
    /\ [][\A o \in OrderIds :
            ConfirmOrder(o) =>
                IF orders[o].confirmed_at THEN LaterConfirm(o)
                ELSE (orders[o].status # "cancelled" /\ orders[o].contact_id # None)
                        => FirstConfirm(o)]_vars

-----------------------------------------------------------------------------
(* The complexity sub-score *)

ScoredParty == risk.req.contact_id
ScoredExisting == Scored /\ ScoredParty \in DOMAIN contacts

\* the parties joined to the scored party by rows, and the rows among them
Component == WithinHops(links, {ScoredParty}, Len(links))
ComponentRows == TouchingLinks(links, Component)

\* what the walk of _complexity_score ends with
Walked == complexity_loop(links, << <<ScoredParty, 0>> >>, {ScoredParty}, 0, 0, 0)

\* C24 as stated: the complexity sub-score is min(95, 20 + 15 x maxDepth +
\* min(40, 2 x totalEdges)) with every row the walk touches counted once; it
\* is 20 for a party without rows and lies in 20..95.  (Checked where the whole
\* component is walked: fewer than 15 parties.)
C24_ComplexityCountsEachRowOnce ==
    (ScoredExisting /\ Cardinality(Component) < 15) =>
        LET complexity == risk.result.factors_json[1].complexity
        IN  /\ complexity = Min(95, 20 + 15 * Walked.max_depth
                                    + Min(40, 2 * Len(ComponentRows)))
            /\ ComponentRows = <<>> => complexity = 20
            /\ complexity >= 20 /\ complexity <= 95

-----------------------------------------------------------------------------
(* The reach of the complexity walk *)

\* the greatest number of rows between the scored party and a party of its
\* component, rows followed in either direction
RECURSIVE HopsToCover(_)
HopsToCover(k) ==
    IF WithinHops(links, {ScoredParty}, k) = Component THEN k ELSE HopsToCover(k + 1)
Eccentricity == HopsToCover(0)

\* C25 as stated: the walk expands every party within 15 rows of the scored
\* party and none beyond, so maxDepth is the smaller of 15 and the greatest
\* distance from the scored party to a party of its component, however many
\* parties the component has.
C25_MaxDepthIsDistanceUpTo15 ==
    ScoredExisting =>
        /\ Walked.max_depth = Min(15, Eccentricity)
        /\ risk.result.factors_json[1].complexity =
              Min(95, 20 + 15 * Min(15, Eccentricity) + Min(40, 2 * Walked.total_links))

-----------------------------------------------------------------------------
(* The paths the aggregator records *)

\* the path map of the call: <<person, <<[path, pct], ...>>>> per individual
PathMap == effective_ownership_paths(CallLoaded.all_links, CallLoaded.contacts, call.root)

\* every recorded path, with the person it is recorded for
RecordedPaths ==
    UNION {{[person |-> PathMap[i][1], path |-> PathMap[i][2][j].path,
             pct |-> PathMap[i][2][j].pct] : j \in 1..Len(PathMap[i][2])} :
           i \in 1..Len(PathMap)}

\* C26 as stated: on every graph, self-loops and longer cycles included, no
\* recorded path contains a party twice, so no individual receives a
\* contribution from a path that revisits a party.
C26_NoPathRevisitsAParty ==
    (Called /\ RootExists) =>
        \A r \in RecordedPaths : Cardinality(Range(r.path)) = Len(r.path)

\* a row of the loaded subgraph that the path search follows from b up to a
Holds(a, b) ==
    \E i \in 1..Len(incoming(CallLoaded.all_links, b)) :
        incoming(CallLoaded.all_links, b)[i][1] = a

PersonToRoot(person, path) ==
    /\ path[1] = person
    /\ path[Len(path)] = call.root
    /\ \A i \in 1..(Len(path) - 1) : Holds(path[i], path[i + 1])

\* C27 as stated: every path recorded for an individual runs from the person
\* to the target: its first element is the person, its last element is the
\* root of the call, and each consecutive pair (a, b) is an ownership or
\* control row with owner a and owned party b.
C27_PathsRunFromPersonToRoot ==
    (Called /\ RootExists) =>
        \A r \in RecordedPaths : PersonToRoot(r.person, r.path)

-----------------------------------------------------------------------------
(* How often a cycle is reported *)

\* the entries of the returned list that report cycle q, from any of its parties
EntriesOf(q) ==
    {i \in 1..Len(result.cycles) :
        SubSeq(result.cycles[i], 1, Len(result.cycles[i]) - 1) \in Rotations(q)}

\* C28 as stated: each simple cycle of the loaded subgraph is reported exactly
\* once, so no two entries of the returned list are rotations of the same
\* cycle, and parallel rows between the same two parties do not repeat an
\* entry.
C28_EachCycleReportedOnce ==
    (Called /\ RootExists) =>
        \A q \in SimpleCycles(CallLoaded.all_links, DOMAIN CallLoaded.contacts) :
            Cardinality(EntriesOf(q)) = 1

-----------------------------------------------------------------------------
(* Aggregator and validator on direct holdings *)

\* every row is an ownership row of 0..100% from an individual straight into
\* the root of the call, a company; one individual may hold several rows
DirectHoldings(root) ==
    /\ root \in DOMAIN contacts
    /\ contacts[root].contact_type = "company"
    /\ Len(links) >= 1
    /\ \A l \in LinkSet : /\ l.link_type = "ownership"
                          /\ l.percentage # NoValue
                          /\ l.percentage[1] > 0 /\ l.percentage[1] <= 10000
                          /\ l.owned_contact_id = root
                          /\ l.owner_contact_id \in Individuals

EffectiveSum ==
    SumOver(DictKeys(result.effective_ownership),
            [c \in DictKeys(result.effective_ownership) |->
                DictGet(result.effective_ownership, c, RatInt(0))])

\* C29 as stated: when every row into the root is an ownership row held by an
\* individual, the effective_ownership values of resolve_ubos sum to the
\* total_percentage of validate_entity, also when one individual holds
\* several rows into the root, whose percentages are added for that
\* individual.
C29_AggregatorAgreesWithValidator ==
    (Called /\ DirectHoldings(call.root)) =>
        EffectiveSum = validate_entity(links, contacts, set_order, call.root).total_percentage

-----------------------------------------------------------------------------
(* Who can be listed as a UBO *)

\* C30: in every result of resolve_ubos each entry of ubos is an individual
\* of the loaded subgraph, no contact_id has two entries, and a root that is
\* a company is never among its own UBOs.
C30_UbosAreDistinctLoadedIndividuals ==
    (Called /\ RootExists) =>
        /\ \A c \in UboIds : IsIndividual(CallLoaded.contacts, c)
        /\ Cardinality(UboIds) = Len(result.ubos)
        /\ contacts[call.root].contact_type = "company" => call.root \notin UboIds

\* a company root with an individual listed as its UBO, while a company also
\* holds a control or director row into the root
C30_Witness ==
    /\ Called /\ RootExists
    /\ contacts[call.root].contact_type = "company"
    /\ result.ubos # <<>>
    /\ \E l \in LinkSet : /\ l.owned_contact_id = call.root
                          /\ l.link_type \in {"control", "director"}
                          /\ l.is_nominee # "true"
                          /\ ~IsIndividual(contacts, l.owner_contact_id)

====
